---------------------------- MODULE Spec2Model ----------------------------
(***************************************************************************)
(* Model of the season-map momentum widget (season_map_momentum.js and its *)
(* sibling revisions): the reader (local storage / time box), the          *)
(* transformer (12 window values, display scale, minute mapping) and the   *)
(* render step that puts the chart into the page.                          *)
(*                                                                         *)
(* JavaScript values are modelled by records of one shape (JV) so that a   *)
(* number, a string, null, NaN, an array and an object can meet in one     *)
(* collection.  Strings are sequences of one-character strings.            *)
(***************************************************************************)
EXTENDS Integers, Sequences, FiniteSets, TLC

VARIABLES
  localStorage,   \* the two storage items the reader looks at
  page,           \* the page: the candidate time boxes and the chart container
  arg,            \* the argument handed to window._seasonMomentum_build12
  ret,            \* what the last call of an exported function returned
  chart,          \* what the last render left in #seasonMapMomentumContainer
  auto,           \* the auto-update machinery: listeners, observers, timers, clock
  log,            \* what has happened so far (history kept to state the properties)
  momentum,       \* the smoothed revisions: the periods read and the 61 values built
  path            \* the last series handed to catmullRom2bezier and the path returned

vars == <<localStorage, page, arg, ret, chart, auto, log, momentum, path>>

---------------------------------------------------------------------------
(* Bounds of the model                                                     *)

MaxGoals == 7
MaxKeys == 3
MaxArrLen == 9
MaxGroups == 4
MaxRow == 5
MaxEvents == 3
MaxTimers == 4

---------------------------------------------------------------------------
(* JavaScript values                                                       *)

JV(t, n, s, k, a) == [t |-> t, n |-> n, s |-> s, k |-> k, a |-> a]

Undef == JV("undefined", 0, <<>>, <<>>, <<>>)
Null == JV("null", 0, <<>>, <<>>, <<>>)
NaN == JV("nan", 0, <<>>, <<>>, <<>>)
Num(i) == JV("number", i, <<>>, <<>>, <<>>)
Bool(b) == JV("boolean", IF b THEN 1 ELSE 0, <<>>, <<>>, <<>>)
Str(cs) == JV("string", 0, cs, <<>>, <<>>)
Arr(elems) == JV("array", 0, <<>>, <<>>, elems)
Obj(keys, vals) == JV("object", 0, <<>>, keys, vals)

IsNum(v) == v.t = "number"

\* x.slice(from, to) on a sequence, 0-based, to exclusive
Slice(q, from, to) ==
  LET hi == IF to < Len(q) THEN to ELSE Len(q)
  IN  IF from >= hi THEN <<>> ELSE [i \in 1..(hi - from) |-> q[from + i]]

\* x.reverse()
Reverse(q) == [i \in 1..Len(q) |-> q[Len(q) + 1 - i]]

\* ToBoolean, as used by || and by if (...)
ToBoolean(v) ==
  CASE v.t = "undefined" -> FALSE
    [] v.t = "null" -> FALSE
    [] v.t = "nan" -> FALSE
    [] v.t = "boolean" -> v.n = 1
    [] v.t = "number" -> v.n # 0
    [] v.t = "string" -> v.s # <<>>
    [] OTHER -> TRUE

\* v || 0
OrZero(v) == IF ToBoolean(v) THEN v ELSE Num(0)

IsDigit(c) == c \in {"0", "1", "2", "3", "4", "5", "6", "7", "8", "9"}

DigitVal(c) ==
  CASE c = "0" -> 0 [] c = "1" -> 1 [] c = "2" -> 2 [] c = "3" -> 3
    [] c = "4" -> 4 [] c = "5" -> 5 [] c = "6" -> 6 [] c = "7" -> 7
    [] c = "8" -> 8 [] c = "9" -> 9

DigitChar(d) ==
  CASE d = 0 -> "0" [] d = 1 -> "1" [] d = 2 -> "2" [] d = 3 -> "3"
    [] d = 4 -> "4" [] d = 5 -> "5" [] d = 6 -> "6" [] d = 7 -> "7"
    [] d = 8 -> "8" [] d = 9 -> "9"

\* UTF-16 code unit of the characters the model uses
CharCode(c) ==
  CASE c = " " -> 32 [] c = "+" -> 43 [] c = "-" -> 45
    [] IsDigit(c) -> 48 + DigitVal(c)
    [] c = "a" -> 97 [] c = "p" -> 112 [] c = "v" -> 118 [] c = "x" -> 120

RECURSIVE TrimLeft(_)
TrimLeft(cs) ==
  IF cs # <<>> /\ Head(cs) = " " THEN TrimLeft(Tail(cs)) ELSE cs

RECURSIVE TrimRight(_)
TrimRight(cs) ==
  IF cs # <<>> /\ cs[Len(cs)] = " "
  THEN TrimRight(SubSeq(cs, 1, Len(cs) - 1)) ELSE cs

RECURSIVE DigitsValue(_)
DigitsValue(cs) ==
  IF cs = <<>> THEN 0
  ELSE 10 * DigitsValue(SubSeq(cs, 1, Len(cs) - 1)) + DigitVal(cs[Len(cs)])

AllDigits(cs) == cs # <<>> /\ \A i \in 1..Len(cs) : IsDigit(cs[i])

\* Number("...") for decimal integer literals: white space is trimmed, the
\* empty string is 0, an optional sign may lead, anything else is NaN
StringToNumber(cs) ==
  LET t == TrimRight(TrimLeft(cs))
  IN  IF t = <<>> THEN Num(0)
      ELSE IF Head(t) = "-" /\ AllDigits(Tail(t)) THEN Num(0 - DigitsValue(Tail(t)))
      ELSE IF Head(t) = "+" /\ AllDigits(Tail(t)) THEN Num(DigitsValue(Tail(t)))
      ELSE IF AllDigits(t) THEN Num(DigitsValue(t))
      ELSE NaN

\* String(i) for an integer i >= 0
RECURSIVE NumberToString(_)
NumberToString(i) ==
  IF i < 10 THEN <<DigitChar(i)>>
  ELSE Append(NumberToString(i \div 10), DigitChar(i % 10))

\* Number(v)
RECURSIVE ToNumber(_)
ToNumber(v) ==
  CASE v.t = "undefined" -> NaN
    [] v.t = "null" -> Num(0)
    [] v.t = "nan" -> NaN
    [] v.t = "boolean" -> Num(v.n)
    [] v.t = "number" -> v
    [] v.t = "string" -> StringToNumber(v.s)
    [] v.t = "array" ->
         \* via join(","): [] is "", [x] is String(x), longer has a comma
         IF Len(v.a) = 0 THEN Num(0)
         ELSE IF Len(v.a) > 1 THEN NaN
         ELSE IF v.a[1].t \in {"undefined", "null"} THEN Num(0)
         ELSE IF v.a[1].t \in {"number", "string", "array"} THEN ToNumber(v.a[1])
         ELSE NaN
    [] OTHER -> NaN

\* Number(v || 0) || 0
NumberOrZero(v) == OrZero(ToNumber(OrZero(v)))

\* Number(v || 0), without the trailing || 0
NumberOfOrZero(v) == ToNumber(OrZero(v))

\* obj[key] for a string key
GetProp(v, key) ==
  CASE v.t = "object" ->
         IF \E i \in 1..Len(v.k) : v.k[i] = key
         THEN v.a[CHOOSE i \in 1..Len(v.k) : v.k[i] = key]
         ELSE Undef
    [] v.t = "array" ->
         IF \E i \in 1..Len(v.a) : NumberToString(i - 1) = key
         THEN v.a[CHOOSE i \in 1..Len(v.a) : NumberToString(i - 1) = key]
         ELSE Undef
    [] OTHER -> Undef

\* Object.keys(v), in property order
ObjectKeys(v) ==
  CASE v.t = "object" -> v.k
    [] v.t = "array" -> [i \in 1..Len(v.a) |-> NumberToString(i - 1)]
    [] OTHER -> <<>>

\* a < b in the order sort() uses without a comparator (code units)
RECURSIVE KeyLess(_, _)
KeyLess(a, b) ==
  IF b = <<>> THEN FALSE
  ELSE IF a = <<>> THEN TRUE
  ELSE IF CharCode(Head(a)) < CharCode(Head(b)) THEN TRUE
  ELSE IF CharCode(Head(a)) > CharCode(Head(b)) THEN FALSE
  ELSE KeyLess(Tail(a), Tail(b))

RECURSIVE InsertKey(_, _)
InsertKey(sorted, key) ==
  IF sorted = <<>> THEN <<key>>
  ELSE IF KeyLess(key, Head(sorted)) THEN <<key>> \o sorted
  ELSE <<Head(sorted)>> \o InsertKey(Tail(sorted), key)

\* keys.sort()
RECURSIVE SortKeys(_)
SortKeys(keys) ==
  IF keys = <<>> THEN <<>>
  ELSE InsertKey(SortKeys(SubSeq(keys, 1, Len(keys) - 1)), keys[Len(keys)])

---------------------------------------------------------------------------
(* Program constants (season_map_momentum.js)                              *)

TOP_GUIDE_Y == 28
MIDLINE_Y == 120
BOTTOM_GUIDE_Y == 196
MAX_DISPLAY == 6

\* Option B: minute of the bucket read at index i (UI order per period)
BUCKET_MINUTES == <<17, 12, 7, 2, 37, 32, 27, 22, 57, 52, 47, 42>>

---------------------------------------------------------------------------
(* Periods                                                                 *)

Period(s, c) == [scored |-> s, conceded |-> c]

ZeroRow == Arr(<<Num(0), Num(0), Num(0), Num(0)>>)
ZeroPeriod == Period(ZeroRow, ZeroRow)

\* what a reader returns: null, or an array of periods
NoData == [isNull |-> TRUE, periods |-> <<>>]
Data(ps) == [isNull |-> FALSE, periods |-> ps]

\* faulty variant of PadTo3: cuts to 3 periods but does not fill up to 3
PadTo3NoFill(ps) == Slice(ps, 0, 3)

\* while (periods.length < 3) periods.push(zero period); return periods.slice(0,3)
PadTo3(ps) ==
  Slice(ps \o [i \in 1..(IF Len(ps) < 3 THEN 3 - Len(ps) ELSE 0) |-> ZeroPeriod], 0, 3)

MapNumberOrZero(q) == [i \in 1..Len(q) |-> NumberOrZero(q[i])]

---------------------------------------------------------------------------
(* The store                                                               *)

\* a storage item: absent (getItem gives null), the empty string, a text that
\* is not JSON, or the JSON text of the value v
Item(kind, v) == [kind |-> kind, v |-> v]
Absent == Item("absent", Undef)
EmptyText == Item("empty", Undef)
Malformed == Item("malformed", Undef)
Json(v) == Item("json", v)

ItemTruthy(it) == it.kind \notin {"absent", "empty"}

\* localStorage.getItem('seasonMapTimeData') || localStorage.getItem('timeData') || null
PickRaw(ls) ==
  IF ItemTruthy(ls.seasonMapTimeData) THEN ls.seasonMapTimeData
  ELSE IF ItemTruthy(ls.timeData) THEN ls.timeData
  ELSE Absent

\* the period decoded from one stored value (Option-B revision: stored order kept)
DecodePeriod(val) ==
  IF val.t = "array" THEN
    IF Len(val.a) >= 8 THEN
      Period(Arr(MapNumberOrZero(Slice(val.a, 0, 4))),
             Arr(MapNumberOrZero(Slice(val.a, 4, 8))))
    ELSE IF Len(val.a) >= 4 THEN
      Period(Arr(MapNumberOrZero(Slice(val.a, 0, 4))), ZeroRow)
    ELSE ZeroPeriod
  ELSE IF ToBoolean(val) /\ val.t = "object" THEN
    LET flat == [i \in 1..8 |-> NumberOfOrZero(GetProp(val, NumberToString(i - 1)))]
    IN  Period(Arr(Slice(flat, 0, 4)), Arr(Slice(flat, 4, 8)))
  ELSE ZeroPeriod

\* faulty variant of readFromLocalStorageFallback: the keys are not sorted
readFromLocalStorageFallbackUnsorted(ls) ==
  LET raw == PickRaw(ls)
  IN  IF ~ItemTruthy(raw) THEN NoData
      ELSE IF raw.kind = "malformed" THEN NoData
      ELSE LET obj == raw.v
           IN  IF ~ToBoolean(obj) \/ obj.t \notin {"object", "array"} THEN NoData
               ELSE LET keys == ObjectKeys(obj)
                        n == IF Len(keys) < 3 THEN Len(keys) ELSE 3
                    IN  Data(PadTo3([p \in 1..n |-> DecodePeriod(GetProp(obj, keys[p]))]))

readFromLocalStorageFallback(ls) ==
  LET raw == PickRaw(ls)
  IN  IF ~ItemTruthy(raw) THEN NoData
      ELSE IF raw.kind = "malformed" THEN NoData      \* JSON.parse throws: caught
      ELSE LET obj == raw.v
           IN  IF ~ToBoolean(obj) \/ obj.t \notin {"object", "array"} THEN NoData
               ELSE LET keys == SortKeys(ObjectKeys(obj))
                        n == IF Len(keys) < 3 THEN Len(keys) ELSE 3
                    IN  Data(PadTo3([p \in 1..n |-> DecodePeriod(GetProp(obj, keys[p]))]))

\* the same in the LS-priority chronological revision: a value may also wrap its
\* array as {value: [...]}, and each row is reversed
DecodePeriodChron(val) ==
  LET arr == IF val.t = "array" THEN val
             ELSE IF GetProp(val, <<"v", "a", "l", "u", "e">>).t = "array"
                  THEN GetProp(val, <<"v", "a", "l", "u", "e">>)
                  ELSE Arr(<<>>)
      p == IF Len(arr.a) >= 8 THEN
             Period(Arr(MapNumberOrZero(Slice(arr.a, 0, 4))),
                    Arr(MapNumberOrZero(Slice(arr.a, 4, 8))))
           ELSE IF Len(arr.a) >= 4 THEN
             Period(Arr(MapNumberOrZero(Slice(arr.a, 0, 4))), ZeroRow)
           ELSE IF ToBoolean(val) /\ val.t \in {"object", "array"} THEN
             LET flat == [i \in 1..8 |->
                            NumberOfOrZero(GetProp(val, NumberToString(i - 1)))]
             IN  Period(Arr(Slice(flat, 0, 4)), Arr(Slice(flat, 4, 8)))
           ELSE ZeroPeriod
  IN  Period(Arr(Reverse(p.scored.a)), Arr(Reverse(p.conceded.a)))

readFromLocalStorageFallbackChron(ls) ==
  LET raw == PickRaw(ls)
  IN  IF ~ItemTruthy(raw) THEN NoData
      ELSE IF raw.kind = "malformed" THEN NoData
      ELSE LET obj == raw.v
           IN  IF ~ToBoolean(obj) \/ obj.t \notin {"object", "array"} THEN NoData
               ELSE LET keys == SortKeys(ObjectKeys(obj))
                        n == IF Len(keys) < 3 THEN Len(keys) ELSE 3
                    IN  Data(PadTo3([p \in 1..n |->
                                       DecodePeriodChron(GetProp(obj, keys[p]))]))

---------------------------------------------------------------------------
(* The page                                                                *)

\* a .time-btn control: the row it sits in ("top", "bottom" or "none") and its text
Control(row, text) == [row |-> row, text |-> text]

\* a candidate time box: whether the element exists, its style.display, and its
\* .period groups, each the sequence of its controls in document order
Box(present, hidden, periods) ==
  [present |-> present, hidden |-> hidden, periods |-> periods]
NoBox == Box(FALSE, FALSE, <<>>)

\* ids tried in turn: seasonMapTimeTrackingBox, seasonTimeTrackingBox, timeTrackingBox
getTimeBoxElement(pg) ==
  IF pg.boxes[1].present THEN 1
  ELSE IF pg.boxes[2].present THEN 2
  ELSE IF pg.boxes[3].present THEN 3
  ELSE 0

ButtonValue(c) == NumberOrZero(Str(c.text))
MapButtonValue(q) == [i \in 1..Len(q) |-> ButtonValue(q[i])]

IsTop(c) == c.row = "top"
IsBottom(c) == c.row = "bottom"

\* faulty variant of ReadGroup: the two-row branch looks at the top row only
ReadGroupTopOnly(g) ==
  LET topBtns == SelectSeq(g, IsTop)
      bottomBtns == SelectSeq(g, IsBottom)
  IN  IF Len(topBtns) >= 4 THEN
        Period(Arr(MapButtonValue(Slice(topBtns, 0, 4))),
               Arr(MapButtonValue(Slice(bottomBtns, 0, 4))))
      ELSE IF Len(g) >= 8 THEN
        Period(Arr(MapButtonValue(Slice(g, 0, 4))), Arr(MapButtonValue(Slice(g, 4, 8))))
      ELSE IF Len(g) >= 4 THEN
        Period(Arr(MapButtonValue(Slice(g, 0, 4))), ZeroRow)
      ELSE ZeroPeriod

\* the period read from one .period group
ReadGroup(g) ==
  LET topBtns == SelectSeq(g, IsTop)
      bottomBtns == SelectSeq(g, IsBottom)
  IN  IF Len(topBtns) >= 4 /\ Len(bottomBtns) >= 4 THEN
        Period(Arr(MapButtonValue(Slice(topBtns, 0, 4))),
               Arr(MapButtonValue(Slice(bottomBtns, 0, 4))))
      ELSE IF Len(g) >= 8 THEN
        Period(Arr(MapButtonValue(Slice(g, 0, 4))), Arr(MapButtonValue(Slice(g, 4, 8))))
      ELSE IF Len(g) >= 4 THEN
        Period(Arr(MapButtonValue(Slice(g, 0, 4))), ZeroRow)
      ELSE ZeroPeriod

readPeriodsFromDOM(pg) ==
  LET b == getTimeBoxElement(pg)
  IN  IF b = 0 THEN NoData
      ELSE LET periodEls == pg.boxes[b].periods
               n == IF Len(periodEls) < 3 THEN Len(periodEls) ELSE 3
           IN  IF Len(periodEls) = 0 THEN NoData
               ELSE Data(PadTo3([i \in 1..n |-> ReadGroup(periodEls[i])]))

---------------------------------------------------------------------------
(* Unified reader and transformer                                          *)

\* Number(v) !== 0
NotZero(v) == LET x == ToNumber(v) IN x.t = "nan" \/ x.n # 0

hasNonZero(ps) ==
  \E p \in 1..Len(ps) :
    LET both == ps[p].scored.a \o ps[p].conceded.a
    IN  \E i \in 1..Len(both) : NotZero(both[i])

ThreeZeroPeriods == <<ZeroPeriod, ZeroPeriod, ZeroPeriod>>

\* faulty variant of readPeriods: the page is preferred over the store
readPeriodsPageFirst(ls, pg) ==
  LET lsP == readFromLocalStorageFallback(ls)
      dom == readPeriodsFromDOM(pg)
  IN  IF ~dom.isNull /\ hasNonZero(dom.periods) THEN dom.periods
      ELSE IF ~lsP.isNull /\ hasNonZero(lsP.periods) THEN lsP.periods
      ELSE IF ~dom.isNull THEN dom.periods
      ELSE IF ~lsP.isNull THEN lsP.periods
      ELSE ThreeZeroPeriods

readPeriods(ls, pg) ==
  LET lsP == readFromLocalStorageFallback(ls)
      dom == readPeriodsFromDOM(pg)
  IN  IF ~lsP.isNull /\ hasNonZero(lsP.periods) THEN lsP.periods
      ELSE IF ~dom.isNull /\ hasNonZero(dom.periods) THEN dom.periods
      ELSE IF ~dom.isNull THEN dom.periods
      ELSE IF ~lsP.isNull THEN lsP.periods
      ELSE ThreeZeroPeriods

\* the LS-priority chronological revision: each row read from the page is reversed
ReadGroupChron(g) ==
  LET p == ReadGroup(g)
  IN  Period(Arr(Reverse(p.scored.a)), Arr(Reverse(p.conceded.a)))

readPeriodsFromDOMChron(pg) ==
  LET b == getTimeBoxElement(pg)
  IN  IF b = 0 THEN NoData
      ELSE LET periodEls == pg.boxes[b].periods
               n == IF Len(periodEls) < 3 THEN Len(periodEls) ELSE 3
           IN  IF Len(periodEls) = 0 THEN NoData
               ELSE Data(PadTo3([i \in 1..n |-> ReadGroupChron(periodEls[i])]))

readPeriodsChron(ls, pg) ==
  LET lsP == readFromLocalStorageFallbackChron(ls)
      dom == readPeriodsFromDOMChron(pg)
  IN  IF ~lsP.isNull /\ hasNonZero(lsP.periods) THEN lsP.periods
      ELSE IF ~dom.isNull /\ hasNonZero(dom.periods) THEN dom.periods
      ELSE IF ~dom.isNull THEN dom.periods
      ELSE IF ~lsP.isNull THEN lsP.periods
      ELSE ThreeZeroPeriods

\* row[b] for a 0-based b: undefined past the end
At(row, b) == IF b + 1 <= Len(row.a) THEN row.a[b + 1] ELSE Undef

\* periods[p] || zero period
PeriodAt(ps, p) == IF p + 1 <= Len(ps) THEN ps[p + 1] ELSE ZeroPeriod

\* faulty variant of build12Values: conceded is added instead of subtracted
build12ValuesAdds(ps) ==
  IF \E p \in 0..2 : PeriodAt(ps, p).scored.t = "undefined"
                     \/ PeriodAt(ps, p).conceded.t = "undefined"
  THEN [threw |-> TRUE, vals |-> <<>>]
  ELSE [threw |-> FALSE,
        vals |-> [i \in 1..12 |->
                    LET p == (i - 1) \div 4
                        b == (i - 1) % 4
                        s == NumberOrZero(At(PeriodAt(ps, p).scored, b))
                        c == NumberOrZero(At(PeriodAt(ps, p).conceded, b))
                    IN  s.n + c.n]]

\* faulty variant of build12Values: a negative difference is cut off at 0
build12ValuesClamped(ps) ==
  IF \E p \in 0..2 : PeriodAt(ps, p).scored.t = "undefined"
                     \/ PeriodAt(ps, p).conceded.t = "undefined"
  THEN [threw |-> TRUE, vals |-> <<>>]
  ELSE [threw |-> FALSE,
        vals |-> [i \in 1..12 |->
                    LET p == (i - 1) \div 4
                        b == (i - 1) % 4
                        s == NumberOrZero(At(PeriodAt(ps, p).scored, b))
                        c == NumberOrZero(At(PeriodAt(ps, p).conceded, b))
                    IN  IF s.n - c.n < 0 THEN 0 ELSE s.n - c.n]]

\* build12Values: reading [b] of a row that is undefined throws a TypeError
build12Values(ps) ==
  IF \E p \in 0..2 : PeriodAt(ps, p).scored.t = "undefined"
                     \/ PeriodAt(ps, p).conceded.t = "undefined"
  THEN [threw |-> TRUE, vals |-> <<>>]
  ELSE [threw |-> FALSE,
        vals |-> [i \in 1..12 |->
                    LET p == (i - 1) \div 4
                        b == (i - 1) % 4
                        s == NumberOrZero(At(PeriodAt(ps, p).scored, b))
                        c == NumberOrZero(At(PeriodAt(ps, p).conceded, b))
                    IN  s.n - c.n]]

Abs(x) == IF x < 0 THEN 0 - x ELSE x
Max2(x, y) == IF x >= y THEN x ELSE y

RECURSIVE MaxOf(_)
MaxOf(q) == IF Len(q) = 1 THEN q[1] ELSE Max2(q[1], MaxOf(Tail(q)))

\* Math.max(1, ...values12.map(v => Math.abs(v))), then Math.max(absMax, MAX_DISPLAY)
AbsMax(values12) == MaxOf(<<1>> \o [i \in 1..Len(values12) |-> Abs(values12[i])])

\* faulty variant of MaxScale: the display floor is left out
MaxScaleNoFloor(values12) == AbsMax(values12)

MaxScale(values12) == Max2(AbsMax(values12), MAX_DISPLAY)

\* pts.slice().sort((a,b) => a.minute - b.minute): stable insertion by minute
RECURSIVE InsertPt(_, _)
InsertPt(sorted, pt) ==
  IF sorted = <<>> THEN <<pt>>
  ELSE IF pt.minute < Head(sorted).minute THEN <<pt>> \o sorted
  ELSE <<Head(sorted)>> \o InsertPt(Tail(sorted), pt)

RECURSIVE SortByMinute(_)
SortByMinute(pts) ==
  IF pts = <<>> THEN <<>>
  ELSE InsertPt(SortByMinute(SubSeq(pts, 1, Len(pts) - 1)), pts[Len(pts)])

\* a rational number num / den with den > 0
Rat(num, den) == [num |-> num, den |-> den]

\* valueToY: MIDLINE_Y - (v / maxScale) * (MIDLINE_Y - TOP_GUIDE_Y), kept as the
\* exact fraction over maxScale
valueToY(v, maxScale) ==
  LET topSpace == MIDLINE_Y - TOP_GUIDE_Y
  IN  Rat(MIDLINE_Y * maxScale - v * topSpace, maxScale)

\* the y of each of the points built from values12
PointYs(values12) ==
  [i \in 1..Len(values12) |-> valueToY(values12[i], MaxScale(values12))]

\* faulty variant of Points: the chronological minute set 2, 7, ..., 57 is used
\* for values kept in the order of the page
PointsChronological(values12) ==
  [i \in 1..Len(values12) |->
     [idx |-> i - 1, minute |-> 5 * (i - 1) + 2, v |-> values12[i]]]

Points(values12) ==
  [i \in 1..Len(values12) |->
     [idx |-> i - 1, minute |-> BUCKET_MINUTES[i], v |-> values12[i]]]

\* faulty variant of Drawn: the positive area is emitted for values >= 0
DrawnFillsZero(ls, pg) ==
  LET built == build12Values(readPeriods(ls, pg))
      values12 == built.vals
  IN  [drawn |-> TRUE,
       threw |-> built.threw,
       values12 |-> values12,
       maxScale |-> MaxScale(values12),
       chron |-> SortByMinute(Points(values12)),
       ys |-> PointYs(values12),
       posArea |-> \E i \in 1..12 : values12[i] >= 0,
       negArea |-> \E i \in 1..12 : values12[i] < 0]

\* what renderSeasonMomentumGraphic draws from the page and the store
Drawn(ls, pg) ==
  LET built == build12Values(readPeriods(ls, pg))
      values12 == built.vals
  IN  [drawn |-> TRUE,
       threw |-> built.threw,
       values12 |-> values12,
       maxScale |-> MaxScale(values12),
       chron |-> SortByMinute(Points(values12)),
       ys |-> PointYs(values12),
       posArea |-> \E i \in 1..12 : values12[i] > 0,
       negArea |-> \E i \in 1..12 : values12[i] < 0]

NoChart ==
  [drawn |-> FALSE, threw |-> FALSE, values12 |-> <<>>, maxScale |-> 0, chron |-> <<>>,
   ys |-> <<>>, posArea |-> FALSE, negArea |-> FALSE]

\* faulty variant of hideTimeBox: the time box is taken out of the page
hideTimeBoxRemoves(pg) ==
  LET b == getTimeBoxElement(pg)
  IN  IF b = 0 THEN pg
      ELSE [pg EXCEPT !.boxes[b] = NoBox]

\* hideTimeBox: style.display = 'none' on the time box found
hideTimeBox(pg) ==
  LET b == getTimeBoxElement(pg)
  IN  IF b = 0 THEN pg
      ELSE [pg EXCEPT !.boxes[b].hidden = TRUE]

---------------------------------------------------------------------------
(* Inputs: bounded families of store contents, page contents and arguments *)

Zeros(len) == [i \in 1..len |-> Num(0)]
WithAt(q, i, v) == [j \in 1..Len(q) |-> IF j = i THEN v ELSE q[j]]

\* entries other than the number 0: two counts, a numeric and a non-numeric
\* string, null
Specials == {Num(1), Num(MaxGoals), Str(<<"2">>), Str(<<"x">>), Null}

Digits0to7 == [i \in 1..8 |-> NumberToString(i - 1)]
ValueKey == <<"v", "a", "l", "u", "e">>

\* stored arrays of every length up to MaxArrLen, zero but for one entry
ArrVals ==
  {Arr(Zeros(len)) : len \in 0..MaxArrLen}
    \cup UNION {{Arr(WithAt(Zeros(len), i, v)) : i \in 1..len, v \in Specials}
                  : len \in 1..MaxArrLen}

\* stored nested mappings: empty, one key, all of "0".."7", a wrapped array
MapVals ==
  {Obj(<<>>, <<>>)}
    \cup {Obj(<<NumberToString(i)>>, <<v>>) : i \in 0..8, v \in Specials}
    \cup {Obj(Digits0to7, WithAt(Zeros(8), i, Num(1))) : i \in 1..8}
    \cup {Obj(<<ValueKey>>, <<Arr(WithAt(Zeros(8), i, Num(1)))>>) : i \in 1..8}

ScalarVals == {Null, Num(1), Str(<<"x">>), Bool(TRUE)}

StoredVals == ArrVals \cup MapVals \cup ScalarVals

KeyName(n) == <<"p">> \o NumberToString(n)

\* keys p_n .. p_1 in that (unsorted) property order
KeyList(n) == [i \in 1..n |-> KeyName(n + 1 - i)]

\* all keys, with p10, which sorts between p1 and p2
AllKeys == KeyList(MaxKeys) \o <<KeyName(10)>>

KeyLists == {KeyList(n) : n \in 0..MaxKeys} \cup {AllKeys}

Zero8 == Arr(Zeros(8))

\* the example of the specification: {p1:[1,0,0,2,0,0,1,0], p2:[0 x8], p3:[3,0,0,0,1,0,0,0]}
ExampleStore ==
  Obj(<<KeyName(1), KeyName(2), KeyName(3)>>,
      <<Arr(<<Num(1), Num(0), Num(0), Num(2), Num(0), Num(0), Num(1), Num(0)>>),
        Zero8,
        Arr(<<Num(3), Num(0), Num(0), Num(0), Num(1), Num(0), Num(0), Num(0)>>)>>)

\* a mapping with the keys ks, every value an array of 8 zeros but the i-th
ObjWith(ks, i, v) == Obj(ks, [j \in 1..Len(ks) |-> IF j = i THEN v ELSE Zero8])

StoreObjs ==
  {ExampleStore}
    \cup {ObjWith(ks, 0, Zero8) : ks \in KeyLists}
    \cup UNION {{ObjWith(ks, i, v) : i \in 1..Len(ks), v \in StoredVals} : ks \in KeyLists}

\* parsed top-level values that are no mapping
TopOthers ==
  {Null, Num(0), Num(5), Str(<<"x">>), Bool(TRUE), Bool(FALSE), Arr(<<>>),
   Arr(<<Num(1), Num(2)>>), Arr(<<Arr(WithAt(Zeros(8), 1, Num(1)))>>)}

Items ==
  {Absent, EmptyText, Malformed} \cup {Json(v) : v \in StoreObjs \cup TopOthers}

ItemsFew ==
  {Absent, EmptyText, Malformed, Json(ExampleStore), Json(ObjWith(KeyList(1), 0, Zero8))}

LocalStorage(a, b) == [seasonMapTimeData |-> a, timeData |-> b]

NoStore == LocalStorage(Absent, Absent)

StoresFull ==
  {LocalStorage(it, Absent) : it \in Items}
    \cup {LocalStorage(a, b) : a \in ItemsFew, b \in ItemsFew}

\* a smaller family for the products with page contents
ValsMid ==
  {Arr(WithAt(Zeros(len), i, v)) : len \in {4, 8}, i \in {1, 4},
                                   v \in {Num(0), Num(1), Num(MaxGoals), Str(<<"x">>)}}
    \cup {Arr(WithAt(Zeros(8), 5, Num(MaxGoals))), Arr(Zeros(3)), Null,
          Obj(<<>>, <<>>), Obj(<<<<"0">>>>, <<Num(1)>>), Obj(<<<<"0">>>>, <<Str(<<"x">>)>>)}

ItemsMid ==
  {Absent, EmptyText, Malformed, Json(ExampleStore), Json(Obj(<<>>, <<>>))}
    \cup {Json(v) : v \in TopOthers}
    \cup {Json(ObjWith(KeyList(1), 1, v)) : v \in ValsMid}
    \cup {Json(ObjWith(AllKeys, i, Arr(WithAt(Zeros(8), 1, Num(1))))) : i \in 1..Len(AllKeys)}

StoresMid ==
  {LocalStorage(it, Absent) : it \in ItemsMid}
    \cup {LocalStorage(a, Json(ExampleStore)) : a \in {EmptyText, Malformed, Json(Null)}}

Page(b1, b2, b3, container) == [boxes |-> <<b1, b2, b3>>, container |-> container]

NoPage == Page(NoBox, NoBox, NoBox, FALSE)

\* a group of nTop top-row, nBottom bottom-row and nOther other controls, all "0"
Layout(nTop, nBottom, nOther) ==
  [i \in 1..(nTop + nBottom + nOther) |->
     Control(IF i <= nTop THEN "top" ELSE IF i <= nTop + nBottom THEN "bottom" ELSE "none",
             <<"0">>)]

StandardGroup == Layout(4, 4, 0)

SetText(g, i, text) == [j \in 1..Len(g) |-> IF j = i THEN Control(g[j].row, text) ELSE g[j]]

\* texts other than "0": a count, one above the display floor with a leading
\* blank, a non-numeric text, the empty text
SpecialTexts == {<<"1">>, <<" ">> \o NumberToString(MaxGoals), <<"x">>, <<>>}

\* rows of no control or of 3..MaxRow controls, with or without one more control
Layouts ==
  {Layout(a, b, c) : a \in {0} \cup 3..MaxRow, b \in {0} \cup 3..MaxRow, c \in 0..1}

\* groups of every layout, all controls "0" but for one
Groups ==
  Layouts
    \cup UNION {{SetText(g, i, text) : i \in 1..Len(g), text \in SpecialTexts}
                  : g \in Layouts}

\* n groups, standard but for group i
GroupsWith(n, i, g) == [j \in 1..n |-> IF j = i THEN g ELSE StandardGroup]

BoxesFew ==
  {Box(TRUE, FALSE, <<>>),
   Box(TRUE, FALSE, <<StandardGroup>>),
   Box(TRUE, FALSE, <<StandardGroup, SetText(StandardGroup, 6, <<"2">>)>>)}

BoxesFull ==
  BoxesFew
    \cup {Box(TRUE, FALSE, GroupsWith(MaxGroups, i, g)) : i \in 1..MaxGroups, g \in Groups}
    \cup UNION {{Box(TRUE, FALSE, GroupsWith(n, i, SetText(StandardGroup, j, <<"1">>)))
                   : i \in 1..n, j \in {1, 8}} : n \in 1..MaxGroups}

PagesFull ==
  {NoPage}
    \cup {Page(b, NoBox, NoBox, FALSE) : b \in BoxesFull}
    \cup {Page(NoBox, b, NoBox, FALSE) : b \in BoxesFew}
    \cup {Page(NoBox, NoBox, b, FALSE) : b \in BoxesFew}
    \cup {Page(b, c, NoBox, FALSE) : b \in BoxesFew, c \in BoxesFew}

GroupsMid ==
  {Layout(4, 4, 0), Layout(3, 5, 0), Layout(4, 0, 0), Layout(3, 0, 0)}
    \cup {SetText(Layout(4, 4, 0), i, text) : i \in {1, 8}, text \in SpecialTexts}
    \cup {SetText(Layout(3, 5, 0), i, <<"1">>) : i \in {4, 5}}
    \cup {SetText(Layout(4, 0, 0), 4, <<"1">>), SetText(Layout(3, 0, 0), 1, <<"1">>)}

PagesMid ==
  {NoPage, Page(Box(TRUE, FALSE, <<>>), NoBox, NoBox, FALSE)}
    \cup {Page(Box(TRUE, FALSE, <<g>>), NoBox, NoBox, FALSE) : g \in GroupsMid}
    \cup {Page(Box(TRUE, FALSE, GroupsWith(MaxGroups, i, SetText(StandardGroup, 1, <<"1">>))),
               NoBox, NoBox, FALSE) : i \in 1..MaxGroups}
    \cup {Page(NoBox, b, c, FALSE) : b \in BoxesFew, c \in BoxesFew}

\* time boxes of the auto-update runs: one standard group, all "0" or with a
\* count in its first control
AutoBoxes ==
  {Box(TRUE, FALSE, <<StandardGroup>>),
   Box(TRUE, FALSE, <<SetText(StandardGroup, 1, <<"1">>)>>)}

AutoPages == {NoPage} \cup {Page(b, NoBox, NoBox, FALSE) : b \in AutoBoxes}

AutoStores == {NoStore, LocalStorage(Json(ExampleStore), Absent)}

\* arguments of build12Values: three periods of 4 + 4 numbers, zero but for one
\* or two entries (entry e of 1..24: period, row, bucket)
Counts == {Num(1), Num(MaxGoals)}

Entries(f) ==
  [p \in 1..3 |->
     Period(Arr([b \in 1..4 |-> f[8 * (p - 1) + b]]),
            Arr([b \in 1..4 |-> f[8 * (p - 1) + 4 + b]]))]

ExamplePeriods ==
  <<Period(Arr(<<Num(1), Num(0), Num(0), Num(2)>>), Arr(<<Num(0), Num(0), Num(1), Num(0)>>)),
    ZeroPeriod,
    Period(Arr(<<Num(3), Num(0), Num(0), Num(0)>>), Arr(<<Num(1), Num(0), Num(0), Num(0)>>))>>

ArgsOne ==
  {Entries(WithAt(Zeros(24), e, v)) : e \in 1..24, v \in Counts \cup {Num(0 - 2)}}

ArgsWellFormed ==
  {ThreeZeroPeriods, ExamplePeriods} \cup ArgsOne
    \cup {Entries(WithAt(WithAt(Zeros(24), e1, v1), e2, v2))
            : e1 \in 1..24, e2 \in 1..24, v1 \in Counts, v2 \in Counts}

\* the row r ("scored" or "conceded") of period p replaced by row
WithRow(ps, p, r, row) ==
  [j \in 1..Len(ps) |->
     IF j # p THEN ps[j]
     ELSE IF r = "scored" THEN Period(row, ps[j].conceded)
     ELSE Period(ps[j].scored, row)]

ArgBases ==
  {ExamplePeriods} \cup {Entries([e \in 1..24 |-> Num(1)])}
    \cup {Entries(WithAt(Zeros(24), e, Num(1))) : e \in {1, 4, 5, 8, 9, 20, 24}}

\* fewer (or more) than 3 periods; a row cut or stretched to 0..MaxRow entries,
\* holding a non-number, or missing
ArgsMalformed ==
  {Slice(ps \o <<ps[1]>>, 0, n) : ps \in ArgBases, n \in 0..MaxGroups}
    \cup {WithRow(ps, p, r, Arr(Slice(ps[p][r].a \o <<Num(1)>> \o Zeros(MaxRow), 0, len)))
            : ps \in ArgBases, p \in 1..3, r \in {"scored", "conceded"}, len \in 0..MaxRow}
    \cup {WithRow(ps, p, r, Arr(WithAt(ps[p][r].a, b, v)))
            : ps \in ArgBases, p \in 1..3, r \in {"scored", "conceded"}, b \in {1, 4},
              v \in {Str(<<"x">>), Str(<<"2">>), Null, NaN, Undef}}
    \cup {WithRow(ps, p, r, Undef)
            : ps \in ArgBases, p \in 1..3, r \in {"scored", "conceded"}}

Args == ArgsWellFormed \cup ArgsMalformed

\* the argument with every number negated
NegatedRow(row) ==
  IF row.t # "array" THEN row
  ELSE Arr([i \in 1..Len(row.a) |->
              IF IsNum(row.a[i]) THEN Num(0 - row.a[i].n) ELSE row.a[i]])

Negated(ps) == [p \in 1..Len(ps) |-> Period(NegatedRow(ps[p].scored), NegatedRow(ps[p].conceded))]

\* the argument with scored and conceded exchanged
Swapped(ps) == [p \in 1..Len(ps) |-> Period(ps[p].conceded, ps[p].scored)]

---------------------------------------------------------------------------
(* Operations                                                              *)

Ret(op, ls, dom, periods, threw, vals) ==
  [op |-> op, ls |-> ls, dom |-> dom, periods |-> periods, threw |-> threw, vals |-> vals]

NoRet == Ret("none", NoData, NoData, <<>>, FALSE, <<>>)

\* the smoothed revisions: what readTimeBoxData returned, the 61 slots after the
\* buckets were added, the slots after each smoothing pass and the values returned
Momentum(op, periods, minutes, passes, out) ==
  [op |-> op, periods |-> periods, minutes |-> minutes, passes |-> passes, out |-> out,
   ys |-> <<>>]

NoMomentum == Momentum("none", <<>>, <<>>, <<>>, [den |-> 1, num |-> <<>>])

\* a call of catmullRom2bezier: the points handed in, the commands of the path
\* returned and the indices of the padded series that were read
Path(op, points, p, d, reads) ==
  [op |-> op, points |-> points, p |-> p, d |-> d, reads |-> reads]

NoPath == Path("none", <<>>, <<>>, <<>>, {})

\* the auto-update machinery: phase "start" (script not yet run), "waiting" (for
\* DOMContentLoaded) or "ready" (setupAutoUpdate has run); whether the document was
\* still loading when the script ran; whether a reset button exists when
\* setupAutoUpdate runs; the listeners added so far (delegated click listeners on
\* the document, storage listeners on the window, click listeners on the reset
\* button); whether the observer of the root is connected; the time box the second
\* observer and the click listener are attached to (0: none); the pending timers in
\* the order they were set, each with the ms left until it runs; the user and page
\* events so far
Auto(phase, loading, resetAtSetup) ==
  [phase |-> phase, loading |-> loading, resetAtSetup |-> resetAtSetup,
   docClick |-> 0, storageL |-> 0, resetL |-> 0,
   rootObs |-> FALSE, box |-> 0,
   timers |-> <<>>, events |-> 0]

NoAuto == Auto("start", FALSE, FALSE)

\* the history: the last completed read-transform cycle (how many completed, capped
\* at 2; its periods and values; whether a render ran since the cycle before it),
\* whether a render ran since, and the values of the build12Values call before the
\* last one
\* and of the auto-update: the ms since the last mutation notification (-1: none;
\* counted up to the longest delay), the bursts of notifications begun, the
\* observer-scheduled renders run, the last render a timer ran, the last storage
\* event and the reset clicks
Log(cycles, periods, vals, between, rendered, before) ==
  [cycles |-> cycles, periods |-> periods, vals |-> vals, between |-> between,
   rendered |-> rendered, before |-> before,
   sinceNote |-> 0 - 1, bursts |-> 0, obsRuns |-> 0,
   lastRun |-> [src |-> "none", zeroControls |-> FALSE, cleared |-> FALSE],
   storage |-> [seen |-> FALSE, key |-> Null, scheduled |-> FALSE, removed |-> FALSE],
   resets |-> 0, resetRuns |-> 0]

NoLog == Log(0, <<>>, <<>>, FALSE, FALSE, <<>>)

\* window._seasonMomentum_readPeriods()
CallReadPeriods ==
  /\ ret' = Ret("readPeriods", readFromLocalStorageFallback(localStorage),
                readPeriodsFromDOM(page), readPeriods(localStorage, page), FALSE, <<>>)
  /\ UNCHANGED <<localStorage, page, arg, chart, auto, log, momentum, path>>

\* window._seasonMomentum_build12(periods) on the periods just read
CallBuild12 ==
  /\ ret.op = "readPeriods"
  /\ arg' = ret.periods
  /\ LET r == build12Values(ret.periods)
     IN  /\ ret' = Ret("build12", ret.ls, ret.dom, ret.periods, r.threw, r.vals)
         /\ log' = [log EXCEPT !.cycles = IF log.cycles < 2 THEN log.cycles + 1 ELSE 2,
                                !.periods = ret.periods, !.vals = r.vals,
                                !.between = log.rendered, !.rendered = FALSE]
  /\ UNCHANGED <<localStorage, page, chart, auto, momentum, path>>

\* window._seasonMomentum_build12(periods) on periods of the caller's making
CallBuild12Arg ==
  /\ LET r == build12Values(arg)
     IN  ret' = Ret("build12", NoData, NoData, <<>>, r.threw, r.vals)
  /\ UNCHANGED <<localStorage, page, arg, chart, auto, log, momentum, path>>

\* window._seasonMomentum_build12 once more, on the negated argument
CallBuild12Negated ==
  /\ ret.op = "build12"
  /\ LET r == build12Values(Negated(arg))
     IN  ret' = Ret("build12negated", NoData, NoData, Negated(arg), r.threw, r.vals)
  /\ log' = [log EXCEPT !.before = ret.vals]
  /\ UNCHANGED <<localStorage, page, arg, chart, auto, momentum, path>>

\* window._seasonMomentum_build12 once more, on the argument with the rows exchanged
CallBuild12Swapped ==
  /\ ret.op = "build12"
  /\ LET r == build12Values(Swapped(arg))
     IN  ret' = Ret("build12swapped", NoData, NoData, Swapped(arg), r.threw, r.vals)
  /\ log' = [log EXCEPT !.before = ret.vals]
  /\ UNCHANGED <<localStorage, page, arg, chart, auto, momentum, path>>

---------------------------------------------------------------------------
(* Auto-update: setupAutoUpdate, its listeners, observers and timers       *)

ResetDelay == 140
StorageDelay == 100
ObserverDelay == 120
ClickDelay == 120

Timer(left, src) == [left |-> left, src |-> src]

\* setTimeout(() => renderSeasonMomentumGraphic(), delay), n times over
SetTimeouts(timers, delay, src, n) ==
  timers \o [i \in 1..n |-> Timer(delay, src)]

IsNotObserverTimer(t) == t.src # "observer"

\* faulty variant of Notified: the timer set before is not cleared
NotifiedNoClear(timers) ==
  SetTimeouts(timers, ObserverDelay, "observer", 1)

\* the callback of the observer of the time box: clearTimeout(setupAutoUpdate._timer),
\* then setupAutoUpdate._timer = setTimeout(render, 120)
Notified(timers) ==
  SetTimeouts(SelectSeq(timers, IsNotObserverTimer), ObserverDelay, "observer", 1)

\* the history of a notification: a notification 120 ms or more after the one
\* before it begins a new burst; one that arrives at the very moment the timer is
\* due, before the timer has run, still counts as within the 120 ms
NoteLogged(lg, timers) ==
  [lg EXCEPT !.sinceNote = 0,
             !.bursts = IF \/ lg.sinceNote < 0
                           \/ /\ lg.sinceNote >= ObserverDelay
                              /\ SelectSeq(timers, IsNotObserverTimer) = timers
                        THEN lg.bursts + 1 ELSE lg.bursts]

\* whether the observer of the time box sees a change of the time box found in pg
Observed(a, pg) == a.box # 0 /\ getTimeBoxElement(pg) = a.box

\* the page after renderSeasonMomentumGraphic
Rendered(pg) == [hideTimeBox(pg) EXCEPT !.container = TRUE]

\* whether hideTimeBox changes the style attribute of the time box
HideChanges(pg) ==
  getTimeBoxElement(pg) # 0 /\ ~pg.boxes[getTimeBoxElement(pg)].hidden

\* setupAutoUpdate(): adds the reset, click and storage listeners; without a time
\* box it connects the observer of the root and returns; with one it hides it,
\* renders and attaches the second observer and the click listener to it
SetupAutoUpdate(a, pg) ==
  LET listening == [a EXCEPT !.phase = "ready",
                             !.docClick = a.docClick + 1,
                             !.storageL = a.storageL + 1,
                             !.resetL = a.resetL + (IF a.resetAtSetup THEN 1 ELSE 0)]
      tb == getTimeBoxElement(pg)
  IN  IF tb = 0
      THEN [auto |-> [listening EXCEPT !.rootObs = TRUE], page |-> pg, rendered |-> FALSE]
      ELSE [auto |-> [listening EXCEPT !.box = tb], page |-> Rendered(pg), rendered |-> TRUE]

\* the script runs: setupAutoUpdate now, or on DOMContentLoaded when the document
\* is still loading
RunScript ==
  /\ auto.phase = "start"
  /\ IF auto.loading
     THEN /\ auto' = [auto EXCEPT !.phase = "waiting"]
          /\ UNCHANGED <<page, chart>>
     ELSE LET r == SetupAutoUpdate(auto, page)
          IN  /\ auto' = r.auto
              /\ page' = r.page
              /\ chart' = IF r.rendered THEN Drawn(localStorage, page) ELSE chart
  /\ UNCHANGED <<localStorage, arg, ret, log, momentum, path>>

DOMContentLoaded ==
  /\ auto.phase = "waiting"
  /\ LET r == SetupAutoUpdate(auto, page)
     IN  /\ auto' = r.auto
         /\ page' = r.page
         /\ chart' = IF r.rendered THEN Drawn(localStorage, page) ELSE chart
  /\ UNCHANGED <<localStorage, arg, ret, log, momentum, path>>

\* a timer is due now
TimerDue == \E i \in 1..Len(auto.timers) : auto.timers[i].left = 0

\* an event of the user or the page can happen: once the script is set up, and
\* none is taken while a timer is due
CanHappen ==
  /\ auto.phase = "ready"
  /\ ~TimerDue
  /\ auto.events < MaxEvents

\* the page puts a time box into the root: the observer of the root, when
\* connected, disconnects, runs setupAutoUpdate again and renders
BoxAppears ==
  /\ CanHappen
  /\ getTimeBoxElement(page) = 0
  /\ \E b \in AutoBoxes :
       LET pg == [page EXCEPT !.boxes[1] = b]
           a == [auto EXCEPT !.events = auto.events + 1]
       IN  IF a.rootObs
           THEN LET r == SetupAutoUpdate([a EXCEPT !.rootObs = FALSE], pg)
                IN  /\ auto' = r.auto
                    /\ page' = Rendered(r.page)
                    /\ chart' = Drawn(localStorage, pg)
           ELSE /\ auto' = a
                /\ page' = pg
                /\ UNCHANGED chart
  /\ UNCHANGED <<localStorage, arg, ret, log, momentum, path>>

\* the time box of pg with control i of its first period set to text
WithControlText(pg, i, text) ==
  LET tb == getTimeBoxElement(pg)
  IN  [pg EXCEPT !.boxes[tb].periods[1] = SetText(pg.boxes[tb].periods[1], i, text)]

\* the time box of pg with every control set to "0"
WithControlsZero(pg) ==
  LET tb == getTimeBoxElement(pg)
  IN  IF tb = 0 THEN pg
      ELSE [pg EXCEPT !.boxes[tb].periods =
              [g \in 1..Len(pg.boxes[tb].periods) |->
                 [i \in 1..Len(pg.boxes[tb].periods[g]) |->
                    Control(pg.boxes[tb].periods[g][i].row, <<"0">>)]]]

\* a time box is there and each of its controls reads 0
ControlsZero(pg) ==
  LET tb == getTimeBoxElement(pg)
  IN  /\ tb # 0
      /\ \A g \in 1..Len(pg.boxes[tb].periods) :
           \A i \in 1..Len(pg.boxes[tb].periods[g]) :
             ButtonValue(pg.boxes[tb].periods[g][i]) = Num(0)

\* a click on the first time button of the first period: the click listener of
\* the time box (capture) sets a timer, then the page counts the goal, which the
\* observer of the time box is notified of
ClickTimeBtn ==
  /\ CanHappen
  /\ getTimeBoxElement(page) # 0
  /\ Len(auto.timers) + 2 <= MaxTimers
  /\ LET tb == getTimeBoxElement(page)
         old == ButtonValue(page.boxes[tb].periods[1][1])
         listened == Observed(auto, page)
         clicked == IF listened
                    THEN SetTimeouts(auto.timers, ClickDelay, "click", 1)
                    ELSE auto.timers
     IN  /\ page' = WithControlText(page, 1, NumberToString(old.n + 1))
         /\ auto' = [auto EXCEPT !.events = auto.events + 1,
                                 !.timers = IF listened THEN Notified(clicked)
                                            ELSE clicked]
         /\ log' = IF listened THEN NoteLogged(log, auto.timers) ELSE log
  /\ UNCHANGED <<localStorage, arg, ret, chart, momentum, path>>

\* the page shows the time box again (style.display cleared): an attribute change
\* the observer of the time box is notified of
ShowTimeBox ==
  /\ CanHappen
  /\ getTimeBoxElement(page) # 0
  /\ page.boxes[getTimeBoxElement(page)].hidden
  /\ Len(auto.timers) + 1 <= MaxTimers
  /\ page' = [page EXCEPT !.boxes[getTimeBoxElement(page)].hidden = FALSE]
  /\ auto' = [auto EXCEPT !.events = auto.events + 1,
                          !.timers = IF Observed(auto, page) THEN Notified(auto.timers)
                                     ELSE auto.timers]
  /\ log' = IF Observed(auto, page) THEN NoteLogged(log, auto.timers) ELSE log
  /\ UNCHANGED <<localStorage, arg, ret, chart, momentum, path>>

\* a click on a reset control: every delegated listener and every listener on
\* the button itself calls resetHandler (setTimeout(render, 140)); the page sets
\* every control to 0 and keeps or removes the stored items
ClickReset ==
  /\ CanHappen
  /\ LET n == auto.docClick + auto.resetL
         changed == WithControlsZero(page) # page
         noted == changed /\ Observed(auto, page)
         set == SetTimeouts(auto.timers, ResetDelay, "reset", n)
     IN  /\ Len(auto.timers) + n + 1 <= MaxTimers
         /\ page' = WithControlsZero(page)
         /\ \E keep \in BOOLEAN : localStorage' = IF keep THEN localStorage ELSE NoStore
         /\ auto' = [auto EXCEPT !.events = auto.events + 1,
                                 !.timers = IF noted THEN Notified(set) ELSE set]
         /\ log' = [(IF noted THEN NoteLogged(log, auto.timers) ELSE log)
                      EXCEPT !.resets = log.resets + 1]
  /\ UNCHANGED <<arg, ret, chart, momentum, path>>

UpperCase ==
  <<"A", "B", "C", "D", "E", "F", "G", "H", "I", "J", "K", "L", "M",
    "N", "O", "P", "Q", "R", "S", "T", "U", "V", "W", "X", "Y", "Z">>
LowerCase ==
  <<"a", "b", "c", "d", "e", "f", "g", "h", "i", "j", "k", "l", "m",
    "n", "o", "p", "q", "r", "s", "t", "u", "v", "w", "x", "y", "z">>

ToLowerChar(c) ==
  IF \E i \in 1..Len(UpperCase) : UpperCase[i] = c
  THEN LowerCase[CHOOSE i \in 1..Len(UpperCase) : UpperCase[i] = c]
  ELSE c

ToLower(cs) == [i \in 1..Len(cs) |-> ToLowerChar(cs[i])]

\* needle occurs somewhere in hay
Contains(hay, needle) ==
  \E i \in 0..(Len(hay) - Len(needle)) : SubSeq(hay, i + 1, i + Len(needle)) = needle

SeasonMapTimeDataKey ==
  <<"s", "e", "a", "s", "o", "n", "M", "a", "p", "T", "i", "m", "e", "D", "a", "t", "a">>
TimeDataKey == <<"t", "i", "m", "e", "D", "a", "t", "a">>

\* e.key && /seasonMapTimeData|timeData/i.test(e.key)
KeyMatches(key) ==
  /\ ToBoolean(key)
  /\ \/ Contains(ToLower(key.s), ToLower(SeasonMapTimeDataKey))
     \/ Contains(ToLower(key.s), ToLower(TimeDataKey))

\* storage events: the key changed (null for clear()) and the store afterwards
StorageChanges(ls) ==
  {[key |-> Str(SeasonMapTimeDataKey), store |-> LocalStorage(v, ls.timeData)]
     : v \in {Absent, Json(ExampleStore)} \ {ls.seasonMapTimeData}}
    \cup {[key |-> Str(TimeDataKey), store |-> LocalStorage(ls.seasonMapTimeData, v)]
            : v \in {Absent, Json(ExampleStore)} \ {ls.timeData}}
    \cup {[key |-> Null, store |-> NoStore]}
    \cup {[key |-> Str(k), store |-> ls]
            : k \in {<<"t", "h", "e", "m", "e">>,
                     <<"l", "i", "f", "e">> \o ToLower(TimeDataKey)}}

\* a storage event from another window: every storage listener tests the key and
\* sets a timer
StorageEvent ==
  /\ CanHappen
  /\ auto.storageL > 0
  /\ Len(auto.timers) + auto.storageL <= MaxTimers
  /\ \E c \in StorageChanges(localStorage) :
       LET scheduled == KeyMatches(c.key)
       IN  /\ localStorage' = c.store
           /\ auto' = [auto EXCEPT !.events = auto.events + 1,
                                   !.timers = IF scheduled
                                              THEN SetTimeouts(auto.timers, StorageDelay, "storage",
                                                               auto.storageL)
                                              ELSE auto.timers]
           /\ log' = [log EXCEPT !.storage =
                        [seen |-> TRUE, key |-> c.key, scheduled |-> scheduled,
                         removed |-> /\ PickRaw(localStorage).kind = "json"
                                     /\ PickRaw(c.store).kind = "absent"]]
  /\ UNCHANGED <<page, arg, ret, chart, momentum, path>>

\* the steps time can advance by, in ms
Gaps == {60, 120}

Min2(x, y) == IF x <= y THEN x ELSE y

RECURSIVE EarliestLeft(_, _)
EarliestLeft(timers, limit) ==
  IF timers = <<>> THEN limit
  ELSE EarliestLeft(Tail(timers), Min2(Head(timers).left, limit))

\* time passes, up to the moment the next timer is due
Tick ==
  /\ ~TimerDue
  /\ auto.timers # <<>> \/ (log.sinceNote >= 0 /\ log.sinceNote < ResetDelay)
  /\ \E gap \in Gaps :
       LET d == EarliestLeft(auto.timers, gap)
       IN  /\ auto' = [auto EXCEPT !.timers =
                         [i \in 1..Len(auto.timers) |->
                            Timer(auto.timers[i].left - d, auto.timers[i].src)]]
           /\ log' = [log EXCEPT !.sinceNote =
                        IF log.sinceNote < 0 THEN log.sinceNote
                        ELSE Min2(log.sinceNote + d, ResetDelay)]
  /\ UNCHANGED <<localStorage, page, arg, ret, chart, momentum, path>>

\* the timer that runs next: the first set among those due
NextTimer == CHOOSE i \in 1..Len(auto.timers) :
               /\ auto.timers[i].left = 0
               /\ \A j \in 1..(i - 1) : auto.timers[j].left > 0

WithoutTimer(timers, i) == SubSeq(timers, 1, i - 1) \o SubSeq(timers, i + 1, Len(timers))

\* a timer runs renderSeasonMomentumGraphic; hiding a shown time box is an
\* attribute change the observer of the time box is notified of
FireTimer ==
  /\ TimerDue
  /\ LET t == auto.timers[NextTimer]
         rest == WithoutTimer(auto.timers, NextTimer)
         noted == HideChanges(page) /\ Observed(auto, page)
     IN  /\ page' = Rendered(page)
         /\ chart' = Drawn(localStorage, hideTimeBox(page))
         /\ auto' = [auto EXCEPT !.timers = IF noted THEN Notified(rest) ELSE rest]
         /\ log' = [log EXCEPT
                      !.lastRun = [src |-> t.src,
                                   zeroControls |-> ControlsZero(page),
                                   cleared |-> \A i \in 1..12 : chart'.values12[i] = 0],
                      !.obsRuns = @ + (IF t.src = "observer" THEN 1 ELSE 0),
                      !.resetRuns = @ + (IF t.src = "reset" THEN 1 ELSE 0),
                      !.sinceNote = IF noted THEN 0 ELSE @,
                      !.bursts = IF noted THEN NoteLogged(log, rest).bursts ELSE @]
  /\ UNCHANGED <<localStorage, arg, ret, momentum, path>>

InitAuto ==
  /\ localStorage \in AutoStores
  /\ page \in AutoPages
  /\ arg = <<>>
  /\ ret = NoRet
  /\ chart = NoChart
  /\ auto \in {Auto("start", FALSE, TRUE), Auto("start", TRUE, FALSE)}
  /\ log = NoLog
  /\ momentum = NoMomentum
  /\ path = NoPath

\* the script with the events of the page: the time box appearing, clicks on time
\* buttons and reset controls, the time box shown again
NextAuto ==
  \/ RunScript
  \/ DOMContentLoaded
  \/ BoxAppears
  \/ ClickTimeBtn
  \/ ShowTimeBox
  \/ ClickReset
  \/ Tick
  \/ FireTimer

SpecAuto == InitAuto /\ [][NextAuto]_vars

\* the script with the storage events of other windows
NextStorage ==
  \/ RunScript
  \/ DOMContentLoaded
  \/ BoxAppears
  \/ StorageEvent
  \/ Tick
  \/ FireTimer

SpecStorage == InitAuto /\ [][NextStorage]_vars

\* window.renderSeasonMomentumGraphic(): hides the time box, creates the
\* container when it is missing, and replaces its content by the new chart
Render ==
  /\ page' = [hideTimeBox(page) EXCEPT !.container = TRUE]
  /\ chart' = Drawn(localStorage, hideTimeBox(page))
  /\ log' = [log EXCEPT !.rendered = TRUE]
  /\ UNCHANGED <<localStorage, arg, ret, auto, momentum, path>>

Init ==
  /\ localStorage \in StoresMid
  /\ page \in PagesMid
  /\ arg = <<>>
  /\ ret = NoRet
  /\ chart = NoChart
  /\ auto = NoAuto
  /\ log = NoLog
  /\ momentum = NoMomentum
  /\ path = NoPath

Next == CallReadPeriods \/ CallBuild12 \/ Render

Spec == Init /\ [][Next]_vars

\* window._seasonMomentum_readPeriods() of the LS-priority chronological revision
CallReadPeriodsChron ==
  /\ ret' = Ret("readPeriodsChron", readFromLocalStorageFallbackChron(localStorage),
                readPeriodsFromDOMChron(page), readPeriodsChron(localStorage, page),
                FALSE, <<>>)
  /\ UNCHANGED <<localStorage, page, arg, chart, auto, log, momentum, path>>

\* the readers on every store content, on every page content, and on the products
InitRead ==
  /\ \/ localStorage \in StoresFull /\ page = NoPage
     \/ localStorage = NoStore /\ page \in PagesFull
     \/ localStorage \in StoresMid /\ page \in PagesMid
  /\ arg = <<>>
  /\ ret = NoRet
  /\ chart = NoChart
  /\ auto = NoAuto
  /\ log = NoLog
  /\ momentum = NoMomentum
  /\ path = NoPath

NextRead == CallReadPeriods \/ CallBuild12

SpecRead == InitRead /\ [][NextRead]_vars

\* the store reader of both revisions on every store content
InitRevisions ==
  /\ localStorage \in StoresFull
  /\ page = NoPage
  /\ arg = <<>>
  /\ ret = NoRet
  /\ chart = NoChart
  /\ auto = NoAuto
  /\ log = NoLog
  /\ momentum = NoMomentum
  /\ path = NoPath

NextRevisions == CallReadPeriods \/ CallReadPeriodsChron

SpecRevisions == InitRevisions /\ [][NextRevisions]_vars

\* build12Values on arguments of the caller's making
InitBuild ==
  /\ localStorage = NoStore
  /\ page = NoPage
  /\ arg \in Args
  /\ ret = NoRet
  /\ chart = NoChart
  /\ auto = NoAuto
  /\ log = NoLog
  /\ momentum = NoMomentum
  /\ path = NoPath

NextBuild == CallBuild12Arg \/ CallBuild12Negated \/ CallBuild12Swapped

SpecBuild == InitBuild /\ [][NextBuild]_vars

---------------------------------------------------------------------------
(* The minute-midpoint revision (part_001)                                 *)

\* 12 window minute midpoints (ascending)
WINDOW_MINUTES == <<2, 7, 12, 17, 22, 27, 32, 37, 42, 47, 52, 57>>

\* readPeriodsFromTimebox: three zero periods without a time box; otherwise the
\* first three .period groups, each row in the order of the page, padded to 3
readPeriodsFromTimebox(pg) ==
  LET b == getTimeBoxElement(pg)
  IN  IF b = 0 THEN ThreeZeroPeriods
      ELSE LET periodEls == pg.boxes[b].periods
               n == IF Len(periodEls) < 3 THEN Len(periodEls) ELSE 3
           IN  PadTo3([i \in 1..n |-> ReadGroup(periodEls[i])])

\* WINDOW_MINUTES.map((minute, idx) => ({ v: values12[idx] || 0, minute, idx }))
PointsMidpoint(values12) ==
  [i \in 1..Len(WINDOW_MINUTES) |->
     [idx |-> i - 1,
      minute |-> WINDOW_MINUTES[i],
      v |-> IF i <= Len(values12) THEN values12[i] ELSE 0]]

\* the chart of the minute-midpoint revision: build12Values has the body of the
\* Option-B one, and the points are handed on in the order of WINDOW_MINUTES
DrawnMidpoint(pg) ==
  LET built == build12Values(readPeriodsFromTimebox(pg))
      values12 == built.vals
  IN  [drawn |-> TRUE,
       threw |-> built.threw,
       values12 |-> values12,
       maxScale |-> MaxScale(values12),
       chron |-> PointsMidpoint(values12),
       ys |-> PointYs(values12),
       posArea |-> \E i \in 1..12 : values12[i] > 0,
       negArea |-> \E i \in 1..12 : values12[i] < 0]

\* window.renderSeasonMomentumGraphic() of the minute-midpoint revision
RenderMidpoint ==
  /\ page' = [hideTimeBox(page) EXCEPT !.container = TRUE]
  /\ chart' = DrawnMidpoint(hideTimeBox(page))
  /\ UNCHANGED <<localStorage, arg, ret, auto, log, momentum, path>>

\* window._seasonMomentum12_readPeriods()
CallReadPeriodsFromTimebox ==
  /\ ret' = Ret("readPeriodsFromTimebox", NoData, NoData, readPeriodsFromTimebox(page),
                FALSE, <<>>)
  /\ UNCHANGED <<localStorage, page, arg, chart, auto, log, momentum, path>>

\* pages of three standard groups with a count in one control, besides PagesMid
PagesMidpoint ==
  PagesMid
    \cup {Page(Box(TRUE, FALSE, GroupsWith(3, i, SetText(StandardGroup, j, <<"1">>))),
               NoBox, NoBox, FALSE) : i \in 1..3, j \in 1..8}

InitMidpoint ==
  /\ localStorage \in AutoStores
  /\ page \in PagesMidpoint
  /\ arg = <<>>
  /\ ret = NoRet
  /\ chart = NoChart
  /\ auto = NoAuto
  /\ log = NoLog
  /\ momentum = NoMomentum
  /\ path = NoPath

NextMidpoint ==
  \/ RenderMidpoint
  \/ CallReadPeriodsFromTimebox

SpecMidpoint == InitMidpoint /\ [][NextMidpoint]_vars

---------------------------------------------------------------------------
(* The smoothed 61-point revisions (part_000, second module of part_002)   *)

TOP_GUIDE_Y_Smoothed == 22
MIDLINE_Y_Smoothed == 96
BOTTOM_GUIDE_Y_Smoothed == 188
MAX_GOALS_DISPLAY == 5

\* BUCKET_LABELS[b].mid
BUCKET_MIDS == <<17, 12, 7, 2>>

smoothPasses == 6

\* a count large enough for a smoothed value to pass MAX_GOALS_DISPLAY
ManyGoals == 25

\* ids tried in turn: seasonTimeTrackingBox, seasonMapTimeTrackingBox, timeTrackingBox
getTimeBoxElementSmoothed(pg) ==
  IF pg.boxes[2].present THEN 2
  ELSE IF pg.boxes[1].present THEN 1
  ELSE IF pg.boxes[3].present THEN 3
  ELSE 0

\* the period read from one .period group: with 1..7 controls and no two rows of
\* 4, the first up to 4 controls are the scored row
ReadGroupSmoothed(g) ==
  LET topBtns == SelectSeq(g, IsTop)
      bottomBtns == SelectSeq(g, IsBottom)
  IN  IF Len(topBtns) >= 4 /\ Len(bottomBtns) >= 4 THEN
        Period(Arr(MapButtonValue(Slice(topBtns, 0, 4))),
               Arr(MapButtonValue(Slice(bottomBtns, 0, 4))))
      ELSE IF Len(g) >= 8 THEN
        Period(Arr(MapButtonValue(Slice(g, 0, 4))), Arr(MapButtonValue(Slice(g, 4, 8))))
      ELSE IF Len(g) > 0 THEN
        Period(Arr(MapButtonValue(Slice(g, 0, 4))), ZeroRow)
      ELSE ZeroPeriod

\* readTimeBoxData of part_000 (first module) and part_002: no periods without a
\* time box; otherwise one period per .period group, padded and cut to 3 (the
\* pages of the model hold controls inside .period groups only, so the flat
\* reading of a box without groups finds no control)
readTimeBoxData(pg) ==
  LET b == getTimeBoxElementSmoothed(pg)
  IN  IF b = 0 THEN <<>>
      ELSE LET periodEls == pg.boxes[b].periods
           IN  PadTo3([i \in 1..Len(periodEls) |-> ReadGroupSmoothed(periodEls[i])])

\* readTimeBoxData of part_000 (second module): only #seasonTimeTrackingBox is
\* looked up; three zero periods when the box has no .period group
readTimeBoxDataSeasonBox(pg) ==
  IF ~pg.boxes[2].present THEN <<>>
  ELSE LET periodEls == pg.boxes[2].periods
       IN  IF Len(periodEls) = 0 THEN ThreeZeroPeriods
           ELSE PadTo3([i \in 1..Len(periodEls) |-> ReadGroupSmoothed(periodEls[i])])

\* Number((period.scored && period.scored[b]) || 0) || 0 minus the same of conceded
BucketValue(ps, p, b) ==
  NumberOrZero(At(PeriodAt(ps, p).scored, b)).n
    - NumberOrZero(At(PeriodAt(ps, p).conceded, b)).n

\* the slot of bucket b of period p: Math.max(0, Math.min(60, Math.round(p * 20 + mid)))
SlotOf(p, b) ==
  LET globalMin == p * 20 + BUCKET_MIDS[b + 1]
  IN  IF globalMin < 0 THEN 0 ELSE IF globalMin > 60 THEN 60 ELSE globalMin

RECURSIVE SumOver(_, _)
SumOver(S, f) ==
  IF S = {} THEN 0
  ELSE LET x == CHOOSE y \in S : TRUE IN f[x] + SumOver(S \ {x}, f)

\* new Array(61).fill(0), then minutes[slot] += scored - conceded for each bucket;
\* slot i of the code is element i + 1
Scattered(ps) ==
  [i \in 1..61 |->
     LET here == {pb \in (0..2) \X (0..3) : SlotOf(pb[1], pb[2]) = i - 1}
     IN  SumOver(here, [pb \in here |-> BucketValue(ps, pb[1], pb[2])])]

\* faulty variant of SmoothPass: the weights 0.25 and 0.5 of the two left taps are
\* exchanged
SmoothPassSkewed(cur) ==
  [i \in 1..Len(cur) |->
     IF i = 1 \/ i = Len(cur) THEN 4 * cur[i]
     ELSE 2 * cur[i - 1] + cur[i] + cur[i + 1]]

\* one smoothing pass on numerators: next = cur.slice(), then for the interior
\* slots next[i] = 0.25 cur[i-1] + 0.5 cur[i] + 0.25 cur[i+1]; the values of the
\* pass are the numerators returned over 4 times the denominator of cur
SmoothPass(cur) ==
  [i \in 1..Len(cur) |->
     IF i = 1 \/ i = Len(cur) THEN 4 * cur[i]
     ELSE cur[i - 1] + 2 * cur[i] + cur[i + 1]]

RECURSIVE Pow4(_)
Pow4(k) == IF k = 0 THEN 1 ELSE 4 * Pow4(k - 1)

\* the numerators after each of n passes, pass k over the denominator 4^k
RECURSIVE SmoothFrom(_, _, _)
SmoothFrom(cur, k, n) ==
  IF k > n THEN <<>>
  ELSE CHOOSE q \in {<<[den |-> Pow4(k), num |-> next]>> \o SmoothFrom(next, k + 1, n)
                       : next \in {SmoothPass(cur)}} : TRUE

\* cur.map(v => Math.max(-MAX_GOALS_DISPLAY, Math.min(MAX_GOALS_DISPLAY, v)))
Clamped(r) ==
  [den |-> r.den,
   num |-> [i \in 1..Len(r.num) |->
              IF r.num[i] > MAX_GOALS_DISPLAY * r.den THEN MAX_GOALS_DISPLAY * r.den
              ELSE IF r.num[i] < (0 - MAX_GOALS_DISPLAY) * r.den
                   THEN (0 - MAX_GOALS_DISPLAY) * r.den
              ELSE r.num[i]]]

\* yForMomentum(val) for val = num / den:
\* BOTTOM_GUIDE_Y - ((val + MAX) / (2 MAX)) * (BOTTOM_GUIDE_Y - TOP_GUIDE_Y)
yForMomentum(num, den) ==
  Rat(BOTTOM_GUIDE_Y_Smoothed * 2 * MAX_GOALS_DISPLAY * den
        - (num + MAX_GOALS_DISPLAY * den) * (BOTTOM_GUIDE_Y_Smoothed - TOP_GUIDE_Y_Smoothed),
      2 * MAX_GOALS_DISPLAY * den)

\* buildMomentumFromTimeBoxes(periods), with what it went through
buildMomentumFromTimeBoxes(op, ps) ==
  CHOOSE m \in UNION {{Momentum(op, ps, minutes, passes, Clamped(passes[smoothPasses]))
                         : passes \in {SmoothFrom(minutes, 1, smoothPasses)}}
                        : minutes \in {Scattered(ps)}} : TRUE

\* points = momentum.map((v, i) => ({ y: yForMomentum(v), ... }))
WithYs(m) ==
  [m EXCEPT !.ys = [i \in 1..Len(m.out.num) |-> yForMomentum(m.out.num[i], m.out.den)]]

\* window._seasonMomentumDebug_readTimeBoxData()
CallReadTimeBoxData ==
  /\ momentum' = Momentum("readTimeBoxData", readTimeBoxData(page), <<>>, <<>>,
                          NoMomentum.out)
  /\ UNCHANGED <<localStorage, page, arg, ret, chart, auto, log, path>>

\* window.renderSeasonMomentumGraphic() of part_002 (second module): creates the
\* container when it is missing, reads, builds and draws
RenderSmoothed ==
  /\ page' = [page EXCEPT !.container = TRUE]
  /\ momentum' = WithYs(buildMomentumFromTimeBoxes("render", readTimeBoxData(page)))
  /\ UNCHANGED <<localStorage, arg, ret, chart, auto, log, path>>

\* window.renderSeasonMomentumGraphic() of part_000 (second module)
RenderSmoothedSeasonBox ==
  /\ page' = [page EXCEPT !.container = TRUE]
  /\ momentum' = WithYs(buildMomentumFromTimeBoxes("render",
                                                   readTimeBoxDataSeasonBox(page)))
  /\ UNCHANGED <<localStorage, arg, ret, chart, auto, log, path>>

\* .period groups of 0, 1..3, 4..7 and 8 or more controls, all "0" or with a count
GroupsSmoothed ==
  {Layout(0, 0, 0), Layout(0, 0, 2), Layout(3, 0, 0), Layout(4, 0, 0), Layout(3, 3, 0),
   Layout(4, 4, 0), Layout(MaxRow, 4, 1)}
    \cup {SetText(Layout(a, 0, 0), 1, <<"1">>) : a \in 1..4}
    \cup {SetText(StandardGroup, j, text)
            : j \in 1..8, text \in {<<"1">>, NumberToString(MaxGoals), NumberToString(ManyGoals)}}

\* time boxes without groups, of one group, and of 3 and MaxGroups groups with
\* counts in two of them
BoxesSmoothed ==
  {Box(TRUE, FALSE, <<>>)}
    \cup {Box(TRUE, FALSE, <<g>>) : g \in GroupsSmoothed}
    \cup {Box(TRUE, FALSE, [GroupsWith(n, i, SetText(StandardGroup, 4, <<"1">>))
                              EXCEPT ![1] = SetText(StandardGroup, j, NumberToString(MaxGoals))])
            : n \in {3, MaxGroups}, i \in 2..3, j \in {1, 5, 8}}

PagesSmoothed ==
  {NoPage}
    \cup {Page(NoBox, b, NoBox, FALSE) : b \in BoxesSmoothed}
    \cup {Page(b, NoBox, NoBox, FALSE) : b \in BoxesFew}
    \cup {Page(NoBox, NoBox, b, FALSE) : b \in BoxesFew}

InitSmoothed ==
  /\ localStorage = NoStore
  /\ page \in PagesSmoothed
  /\ arg = <<>>
  /\ ret = NoRet
  /\ chart = NoChart
  /\ auto = NoAuto
  /\ log = NoLog
  /\ momentum = NoMomentum
  /\ path = NoPath

NextSmoothed ==
  \/ CallReadTimeBoxData
  \/ RenderSmoothed
  \/ RenderSmoothedSeasonBox

SpecSmoothed == InitSmoothed /\ [][NextSmoothed]_vars

---------------------------------------------------------------------------
(* catmullRom2bezier (season_map_momentum.js, lines 145-163)               *)

\* Coordinates of the points handed in are numerators over Unit (a point
\* <<3, 1>> with Unit = 8 is x = 0.375, y = 0.125); the coordinates written
\* into the path are whole hundredths, as toFixed(2) prints them.
Unit == 8
XStep == 3
MaxPts == 4
MaxY == 3

\* Number.prototype.toFixed(2) of num/den (den > 0): the nearest number of
\* hundredths, the larger one in magnitude at a tie; the sign is taken off
\* first and put back in front.
toFixed2(num, den) ==
  LET n == (200 * Abs(num) + den) \div (2 * den)
  IN  IF num < 0 THEN 0 - n ELSE n

\* one command of the path: "M" and "L" carry the point only
Cmd(c, b1, b2, to) == [c |-> c, b1 |-> b1, b2 |-> b2, to |-> to]

\* `${pt.x.toFixed(2)} ${pt.y.toFixed(2)}`
Fixed(pt) == <<toFixed2(pt[1], Unit), toFixed2(pt[2], Unit)>>

\* p: points[0], every point, points[points.length - 1]
PaddedNone(points) == points

Padded(points) == <<points[1]>> \o points \o <<points[Len(points)]>>

\* the indices (from 0) of p read by the loop: i - 1 .. i + 2 for
\* i = 1 .. p.length - 3
ReadsOf(p) == UNION {{i - 1, i, i + 1, i + 2} : i \in 1..(Len(p) - 3)}

\* the cubic segment written for loop index i (p is indexed from 0 in the
\* code, from 1 here): b1 = p1 + (p2 - p0)/6, b2 = p2 - (p3 - p1)/6
Segment(p, i) ==
  LET p0 == p[i]
      p1 == p[i + 1]
      p2 == p[i + 2]
      p3 == p[i + 3]
  IN  Cmd("C",
          <<toFixed2(6 * p1[1] + (p2[1] - p0[1]), 6 * Unit),
            toFixed2(6 * p1[2] + (p2[2] - p0[2]), 6 * Unit)>>,
          <<toFixed2(6 * p2[1] - (p3[1] - p1[1]), 6 * Unit),
            toFixed2(6 * p2[2] - (p3[2] - p1[2]), 6 * Unit)>>,
          Fixed(p2))

catmullRom2bezier(points) ==
  IF Len(points) = 0 THEN Path("returned", points, <<>>, <<>>, {})
  ELSE IF Len(points) = 1
    THEN Path("returned", points, <<>>, <<Cmd("M", <<>>, <<>>, Fixed(points[1]))>>, {})
  ELSE IF Len(points) = 2
    THEN Path("returned", points, <<>>,
              <<Cmd("M", <<>>, <<>>, Fixed(points[1])),
                Cmd("L", <<>>, <<>>, Fixed(points[2]))>>, {})
  ELSE
    LET p == Padded(points)
        reads == ReadsOf(p)
    IN  IF \E r \in reads : r > Len(p) - 1
          \* p[r] is undefined there and reading its x throws
          THEN Path("threw", points, p, <<>>, reads)
          ELSE Path("returned", points, p,
                    <<Cmd("M", <<>>, <<>>, Fixed(points[1]))>> \o
                      [i \in 1..(Len(p) - 3) |-> Segment(p, i)],
                    reads)

\* the series handed in: x grows with the index, as after the chronological
\* sort of the render, y is any of 0..MaxY over Unit
PointSeries ==
  UNION {{[i \in 1..n |-> <<(i - 1) * XStep, ys[i]>>] : ys \in [1..n -> 0..MaxY]} :
           n \in 0..MaxPts}

CallCatmullRom2bezier ==
  /\ path.op = "input"
  /\ path' = catmullRom2bezier(path.points)
  /\ UNCHANGED <<localStorage, page, arg, ret, chart, auto, log, momentum>>

InitCurve ==
  /\ localStorage = NoStore
  /\ page = NoPage
  /\ arg = <<>>
  /\ ret = NoRet
  /\ chart = NoChart
  /\ auto = NoAuto
  /\ log = NoLog
  /\ momentum = NoMomentum
  /\ \E points \in PointSeries : path = Path("input", points, <<>>, <<>>, {})

NextCurve == CallCatmullRom2bezier

SpecCurve == InitCurve /\ [][NextCurve]_vars

---------------------------------------------------------------------------
(* The two modules of season_map_momentum.js on one page                   *)

\* The file holds two modules, each a function called at once: the first
\* (lines 12-407) with the store-first reader and BUCKET_MINUTES, the second
\* (lines 421-732) with a reader of the page alone that reverses each row and
\* with the minutes below. Both draw into #seasonMapMomentumContainer, both
\* run setupAutoUpdate, and the second assigns window.renderSeasonMomentumGraphic
\* and window._seasonMomentum_readPeriods after the first did.
WINDOW_MINUTES_Second == <<4, 9, 14, 19, 24, 29, 34, 39, 44, 49, 54, 59>>

ClickDelaySecond == 100

\* the events and the timers pending at once in the runs with both modules
MaxEventsBoth == 2
MaxTimersBoth == 6

CanHappenBoth ==
  /\ auto.phase = "ready"
  /\ ~TimerDue
  /\ auto.events < MaxEventsBoth

\* readPeriodsFromTimebox of the second module: three zero periods without a
\* time box; otherwise the first three .period groups, each row reversed
readPeriodsFromTimeboxSecond(pg) ==
  LET b == getTimeBoxElement(pg)
  IN  IF b = 0 THEN ThreeZeroPeriods
      ELSE LET periodEls == pg.boxes[b].periods
               n == IF Len(periodEls) < 3 THEN Len(periodEls) ELSE 3
           IN  PadTo3([i \in 1..n |-> ReadGroupChron(periodEls[i])])

\* WINDOW_MINUTES.map((minute, idx) => ({ x, y, v: values12[idx] || 0, minute, idx }))
PointsSecond(values12) ==
  [i \in 1..Len(WINDOW_MINUTES_Second) |->
     [idx |-> i - 1,
      minute |-> WINDOW_MINUTES_Second[i],
      v |-> IF i <= Len(values12) THEN values12[i] ELSE 0]]

\* the chart the render of the second module draws
DrawnSecond(pg) ==
  LET built == build12Values(readPeriodsFromTimeboxSecond(pg))
      values12 == built.vals
  IN  [drawn |-> TRUE,
       threw |-> built.threw,
       values12 |-> values12,
       maxScale |-> MaxScale(values12),
       chron |-> PointsSecond(values12),
       ys |-> PointYs(values12),
       posArea |-> \E i \in 1..12 : values12[i] > 0,
       negArea |-> \E i \in 1..12 : values12[i] < 0]

IsSecond(t) == t.src \in {"observer2", "click2"}

IsNotObserverTimerSecond(t) == t.src # "observer2"

\* the callbacks of the two observers of the time box, in the order the
\* observers were made: each clears its own timer and sets a new one
NotifiedBoth(timers) ==
  SetTimeouts(SelectSeq(Notified(timers), IsNotObserverTimerSecond),
              ObserverDelay, "observer2", 1)

\* the file runs with the document loaded: setupAutoUpdate of the first
\* module, then of the second; with a time box each hides it and renders
\* before it attaches its observer, so the chart of the second is left
LoadBoth ==
  /\ auto.phase = "start"
  /\ LET r == SetupAutoUpdate(auto, page)
     IN  /\ auto' = r.auto
         /\ page' = r.page
         /\ chart' = IF r.rendered THEN DrawnSecond(page) ELSE chart
         /\ log' = IF r.rendered THEN [log EXCEPT !.lastRun.src = "setup"] ELSE log
  /\ UNCHANGED <<localStorage, arg, ret, momentum, path>>

\* the page puts a time box into the root: the root observer of each module
\* disconnects, runs setupAutoUpdate again and renders, the first module first
BoxAppearsBoth ==
  /\ CanHappenBoth
  /\ getTimeBoxElement(page) = 0
  /\ auto.rootObs
  /\ \E b \in AutoBoxes :
       /\ page' = Rendered([page EXCEPT !.boxes[1] = b])
       /\ auto' = SetupAutoUpdate([auto EXCEPT !.events = auto.events + 1,
                                               !.rootObs = FALSE], page').auto
       /\ chart' = DrawnSecond(page')
  /\ log' = [log EXCEPT !.lastRun.src = "setup"]
  /\ UNCHANGED <<localStorage, arg, ret, momentum, path>>

\* a click on the first time button: the click listener of the first module
\* sets a timer of 120 ms, that of the second one of 100 ms; the page counts
\* the goal and both observers are notified
ClickTimeBtnBoth ==
  /\ CanHappenBoth
  /\ Observed(auto, page)
  /\ Len(auto.timers) + 4 <= MaxTimersBoth
  /\ page' = WithControlText(page, 1,
               NumberToString(ButtonValue(page.boxes[auto.box].periods[1][1]).n + 1))
  /\ auto' = [auto EXCEPT
                !.events = auto.events + 1,
                !.timers = NotifiedBoth(SetTimeouts(SetTimeouts(auto.timers, ClickDelay, "click", 1),
                                                    ClickDelaySecond, "click2", 1))]
  /\ UNCHANGED <<localStorage, arg, ret, chart, log, momentum, path>>

\* a click on a reset control: only the first module listens; the page sets
\* every control to 0, which both observers are notified of
ClickResetBoth ==
  /\ CanHappenBoth
  /\ Len(auto.timers) + auto.docClick + auto.resetL + 2 <= MaxTimersBoth
  /\ page' = WithControlsZero(page)
  /\ auto' = [auto EXCEPT
                !.events = auto.events + 1,
                !.timers = IF page' # page /\ Observed(auto, page)
                           THEN NotifiedBoth(SetTimeouts(auto.timers, ResetDelay, "reset",
                                                         auto.docClick + auto.resetL))
                           ELSE SetTimeouts(auto.timers, ResetDelay, "reset",
                                            auto.docClick + auto.resetL)]
  /\ UNCHANGED <<localStorage, arg, ret, chart, log, momentum, path>>

\* a storage event: only the first module listens
StorageEventBoth ==
  /\ CanHappenBoth
  /\ Len(auto.timers) + auto.storageL <= MaxTimersBoth
  /\ \E c \in StorageChanges(localStorage) :
       /\ localStorage' = c.store
       /\ auto' = [auto EXCEPT
                     !.events = auto.events + 1,
                     !.timers = IF KeyMatches(c.key)
                                THEN SetTimeouts(auto.timers, StorageDelay, "storage",
                                                 auto.storageL)
                                ELSE auto.timers]
  /\ UNCHANGED <<page, arg, ret, chart, log, momentum, path>>

\* window.renderSeasonMomentumGraphic(): the render of the second module
CallRenderBoth ==
  /\ CanHappenBoth
  /\ page' = Rendered(page)
  /\ chart' = DrawnSecond(page')
  /\ auto' = [auto EXCEPT !.events = auto.events + 1,
                          !.timers = IF HideChanges(page) /\ Observed(auto, page)
                                     THEN NotifiedBoth(auto.timers) ELSE auto.timers]
  /\ log' = [log EXCEPT !.lastRun.src = "call"]
  /\ UNCHANGED <<localStorage, arg, ret, momentum, path>>

\* a timer runs the render of the module that set it; hiding a shown time
\* box is an attribute change both observers are notified of
FireTimerBoth ==
  /\ TimerDue
  /\ page' = Rendered(page)
  /\ chart' = IF IsSecond(auto.timers[NextTimer])
              THEN DrawnSecond(page')
              ELSE Drawn(localStorage, page')
  /\ auto' = [auto EXCEPT !.timers = IF HideChanges(page) /\ Observed(auto, page)
                                     THEN NotifiedBoth(WithoutTimer(auto.timers, NextTimer))
                                     ELSE WithoutTimer(auto.timers, NextTimer)]
  /\ log' = [log EXCEPT !.lastRun.src = auto.timers[NextTimer].src]
  /\ UNCHANGED <<localStorage, arg, ret, momentum, path>>

\* window._seasonMomentum_readPeriods(), then window._seasonMomentum_build12 of
\* what it returned, once every timer has run: the reader of the second
\* module, the transformer of the first
CallAccessorsBoth ==
  /\ auto.phase = "ready"
  /\ auto.timers = <<>>
  /\ chart.drawn
  /\ ret.vals # build12Values(readPeriodsFromTimeboxSecond(page)).vals
  /\ ret' = Ret("accessors", NoData, NoData, readPeriodsFromTimeboxSecond(page), FALSE,
                build12Values(readPeriodsFromTimeboxSecond(page)).vals)
  /\ UNCHANGED <<localStorage, page, arg, chart, auto, log, momentum, path>>

InitBoth ==
  /\ localStorage \in AutoStores
  /\ page \in AutoPages
  /\ arg = <<>>
  /\ ret = NoRet
  /\ chart = NoChart
  /\ auto = Auto("start", FALSE, TRUE)
  /\ log = NoLog
  /\ momentum = NoMomentum
  /\ path = NoPath

NextBoth ==
  \/ LoadBoth
  \/ BoxAppearsBoth
  \/ ClickTimeBtnBoth
  \/ ClickResetBoth
  \/ StorageEventBoth
  \/ CallRenderBoth
  \/ CallAccessorsBoth
  \/ Tick
  \/ FireTimerBoth

SpecBoth == InitBoth /\ [][NextBoth]_vars

---------------------------------------------------------------------------
(* Properties                                                              *)

\* a row that is an array of exactly 4 entries
RowOf4(row) == row.t = "array" /\ Len(row.a) = 4

NumbersOnly(row) == \A i \in 1..Len(row.a) : IsNum(row.a[i])

\* three periods, each of 4 scored and 4 conceded numbers
WellFormed(ps) ==
  /\ Len(ps) = 3
  /\ \A p \in 1..3 : /\ RowOf4(ps[p].scored) /\ NumbersOnly(ps[p].scored)
                     /\ RowOf4(ps[p].conceded) /\ NumbersOnly(ps[p].conceded)

\* some entry of the periods is not the number 0
AnyNonZero(ps) ==
  \E p \in 1..Len(ps) :
    \/ \E i \in 1..Len(ps[p].scored.a) : ps[p].scored.a[i] # Num(0)
    \/ \E i \in 1..Len(ps[p].conceded.a) : ps[p].conceded.a[i] # Num(0)

ExampleValues == <<1, 0, 0 - 1, 2, 0, 0, 0, 0, 2, 0, 0, 0>>

\* C1: for 3 periods of 4 scored and 4 conceded integers build12Values returns
\* exactly 12 values, the one at index 4*p+b being scored[p][b] - conceded[p][b].
C1_Build12Values ==
  (ret.op = "build12" /\ WellFormed(arg)) =>
    /\ ~ret.threw
    /\ Len(ret.vals) = 12
    /\ \A p \in 0..2 : \A b \in 0..3 :
         ret.vals[4 * p + b + 1]
           = arg[p + 1].scored.a[b + 1].n - arg[p + 1].conceded.a[b + 1].n

C1_Witness ==
  /\ ret.op = "build12"
  /\ arg = ExamplePeriods
  /\ ret.vals = ExampleValues

\* C2: readPeriods returns the store's periods when the store parsed and holds a
\* non-zero value; else the page's periods when the page source exists and holds a
\* non-zero value; else the page's periods when the page source exists; else the
\* store's periods when the store parsed; else three zero periods.  The page
\* source exists when a time box with at least one period group is found.
C2_Precedence ==
  (ret.op # "none") =>
    LET storeParsed == ~ret.ls.isNull
        pageExists == ~ret.dom.isNull
        storeNonZero == storeParsed /\ AnyNonZero(ret.ls.periods)
        pageNonZero == pageExists /\ AnyNonZero(ret.dom.periods)
    IN  /\ pageExists <=> /\ getTimeBoxElement(page) # 0
                          /\ Len(page.boxes[getTimeBoxElement(page)].periods) > 0
        /\ storeNonZero => ret.periods = ret.ls.periods
        /\ (~storeNonZero /\ pageNonZero) => ret.periods = ret.dom.periods
        /\ (~storeNonZero /\ ~pageNonZero /\ pageExists) => ret.periods = ret.dom.periods
        /\ (~storeNonZero /\ ~pageExists /\ storeParsed) => ret.periods = ret.ls.periods
        /\ (~storeParsed /\ ~pageExists) => ret.periods = ThreeZeroPeriods

C2_Witness ==
  /\ ret.op = "readPeriods"
  /\ ~ret.ls.isNull /\ ~AnyNonZero(ret.ls.periods)
  /\ ~ret.dom.isNull /\ AnyNonZero(ret.dom.periods)
  /\ ret.periods = ret.dom.periods
  /\ ret.periods # ret.ls.periods

\* C3: for every store content and every page content readPeriods returns
\* exactly 3 periods, each with exactly 4 scored and exactly 4 conceded entries.
C3_ThreePeriodsOfFour ==
  (ret.op # "none") =>
    /\ Len(ret.periods) = 3
    /\ \A p \in 1..3 : RowOf4(ret.periods[p].scored) /\ RowOf4(ret.periods[p].conceded)

\* a store of more than 3 keys one of which holds an array of more than 8 entries
C3_Witness ==
  /\ ret.op = "readPeriods"
  /\ PickRaw(localStorage).kind = "json"
  /\ Len(ObjectKeys(PickRaw(localStorage).v)) > 3
  /\ \E i \in 1..Len(PickRaw(localStorage).v.a) :
       /\ PickRaw(localStorage).v.a[i].t = "array"
       /\ Len(PickRaw(localStorage).v.a[i].a) > 8
  /\ ret.periods = ret.ls.periods
  /\ AnyNonZero(ret.periods)

\* C4: every scored and conceded entry of the periods the reader returns is a
\* number; a non-numeric text or entry is replaced by 0, so no NaN reaches the caller.
C4_EntriesAreNumbers ==
  (ret.op # "none") =>
    \A p \in 1..Len(ret.periods) :
      NumbersOnly(ret.periods[p].scored) /\ NumbersOnly(ret.periods[p].conceded)

\* C5: when the stored text is not valid JSON, or parses to something that is not
\* a mapping (null, number, string, boolean, array), the store reader reports no
\* data and readPeriods falls back to the page-content source.
C5_NonMappingIsNoData ==
  LET raw == PickRaw(localStorage)
  IN  (ret.op # "none"
         /\ (raw.kind = "malformed" \/ (raw.kind = "json" /\ raw.v.t # "object"))) =>
        /\ ret.ls.isNull
        /\ ret.periods = IF ret.dom.isNull THEN ThreeZeroPeriods ELSE ret.dom.periods

\* the period a stored value stands for, by its shape
ShapeDecoded(val) ==
  IF val.t = "array" /\ Len(val.a) >= 8 THEN
    Period(Arr([b \in 1..4 |-> val.a[b]]), Arr([b \in 1..4 |-> val.a[4 + b]]))
  ELSE IF val.t = "array" /\ Len(val.a) >= 4 THEN
    Period(Arr([b \in 1..4 |-> val.a[b]]), ZeroRow)
  ELSE IF val.t = "object" THEN
    LET key(i) == NumberToString(i)
        at(i) == IF \E j \in 1..Len(val.k) : val.k[j] = key(i)
                 THEN val.a[CHOOSE j \in 1..Len(val.k) : val.k[j] = key(i)]
                 ELSE Num(0)
    IN  Period(Arr([b \in 1..4 |-> at(b - 1)]), Arr([b \in 1..4 |-> at(3 + b)]))
  ELSE ZeroPeriod

\* the key of rank p (1-based) in code-unit order
KeyOfRank(keys, p) ==
  CHOOSE k \in {keys[i] : i \in 1..Len(keys)} :
    Cardinality({j \in 1..Len(keys) : KeyLess(keys[j], k)}) = p - 1

\* a period in the row order the revision emits
InRevisionOrder(op, period) ==
  IF op = "readPeriodsChron"
  THEN Period(Arr(Reverse(period.scored.a)), Arr(Reverse(period.conceded.a)))
  ELSE period

\* C6: the store reader decodes each stored value by its shape: an array of 8 or
\* more entries gives scored = entries 0..3 and conceded = entries 4..7; an array
\* of 4 to 7 entries gives scored = entries 0..3 and conceded zero; a nested
\* mapping gives keys "0".."3" and "4".."7", missing keys as 0; every other value,
\* an array of fewer than 4 entries included, gives an all-zero period.  Stated for
\* stored values whose entries are numbers, in the row order of each revision.
C6_DecodeByShape ==
  LET raw == PickRaw(localStorage)
      keys == ObjectKeys(raw.v)
  IN  (ret.op \in {"readPeriods", "readPeriodsChron"}
         /\ raw.kind = "json" /\ raw.v.t = "object") =>
        /\ ~ret.ls.isNull
        /\ \A p \in 1..3 :
             IF p <= Len(keys)
             THEN LET val == GetProp(raw.v, KeyOfRank(keys, p))
                  IN  NumbersOnly(val) =>
                        ret.ls.periods[p] = InRevisionOrder(ret.op, ShapeDecoded(val))
             ELSE ret.ls.periods[p] = ZeroPeriod

\* the index in g of the n-th control of the row
NthOfRow(g, row, n) ==
  CHOOSE i \in 1..Len(g) :
    /\ g[i].row = row
    /\ Cardinality({j \in 1..(i - 1) : g[j].row = row}) = n - 1

CountOfRow(g, row) == Cardinality({i \in 1..Len(g) : g[i].row = row})

\* the period a group of controls stands for
GroupPeriod(g) ==
  IF CountOfRow(g, "top") >= 4 /\ CountOfRow(g, "bottom") >= 4 THEN
    Period(Arr([b \in 1..4 |-> ButtonValue(g[NthOfRow(g, "top", b)])]),
           Arr([b \in 1..4 |-> ButtonValue(g[NthOfRow(g, "bottom", b)])]))
  ELSE IF Len(g) >= 8 THEN
    Period(Arr([b \in 1..4 |-> ButtonValue(g[b])]),
           Arr([b \in 1..4 |-> ButtonValue(g[4 + b])]))
  ELSE IF Len(g) >= 4 THEN
    Period(Arr([b \in 1..4 |-> ButtonValue(g[b])]), ZeroRow)
  ELSE ZeroPeriod

ArraysOf8Numbers(obj) ==
  \A i \in 1..Len(obj.a) :
    obj.a[i].t = "array" /\ Len(obj.a[i].a) = 8 /\ NumbersOnly(obj.a[i])

\* C8: a store mapping whose values are arrays of 8 numbers, read and transformed,
\* yields the values in stored order: period p is the array under the p-th key in
\* lexicographic order (the first 3 sorted keys only) and the window value at
\* index 4*p+b is array_p[b] - array_p[4+b]; the example store yields
\* [1,0,-1,2,0,0,0,0,2,0,0,0].
C8_StoredOrder ==
  LET raw == PickRaw(localStorage)
      keys == ObjectKeys(raw.v)
  IN  (ret.op = "build12" /\ raw.kind = "json" /\ raw.v.t = "object"
         /\ ArraysOf8Numbers(raw.v) /\ ret.periods = ret.ls.periods) =>
        /\ ~ret.threw
        /\ \A p \in 0..2 : \A b \in 0..3 :
             ret.vals[4 * p + b + 1]
               = IF p + 1 <= Len(keys)
                 THEN LET arr == GetProp(raw.v, KeyOfRank(keys, p + 1)).a
                      IN  arr[b + 1].n - arr[b + 5].n
                 ELSE 0
        /\ raw.v = ExampleStore => ret.vals = ExampleValues

\* more than 3 keys in unsorted property order, the key of rank 2 holding a count
C8_Witness ==
  /\ ret.op = "build12"
  /\ PickRaw(localStorage).kind = "json"
  /\ PickRaw(localStorage).v.t = "object"
  /\ ArraysOf8Numbers(PickRaw(localStorage).v)
  /\ Len(PickRaw(localStorage).v.k) > 3
  /\ ret.periods = ret.ls.periods
  /\ \E b \in 1..4 : ret.vals[4 + b] # 0

\* C9: the display scale of a render is max(1, max |value|, 6): at least 1, at
\* least 6, exactly 6 when all 12 values are zero, and never 0.
C9_DisplayScale ==
  chart.drawn =>
    LET candidates == {1, MAX_DISPLAY} \cup {Abs(chart.values12[i]) : i \in 1..12}
    IN  /\ Len(chart.values12) = 12
        /\ chart.maxScale \in candidates
        /\ \A c \in candidates : c <= chart.maxScale
        /\ chart.maxScale >= 1
        /\ chart.maxScale >= 6
        /\ chart.maxScale # 0
        /\ (\A i \in 1..12 : chart.values12[i] = 0) => chart.maxScale = 6

\* a render whose largest value exceeds the display floor
C9_Witness ==
  /\ chart.drawn
  /\ chart.maxScale > MAX_DISPLAY
  /\ \E i \in 1..12 : Abs(chart.values12[i]) = chart.maxScale

\* the entry b of row r of period p (0-based), 0 when the period, the row or the
\* entry is missing
EntryOrZero(ps, p, r, b) ==
  IF p + 1 <= Len(ps) /\ ps[p + 1][r].t = "array" /\ b + 1 <= Len(ps[p + 1][r].a)
  THEN ps[p + 1][r].a[b + 1].n
  ELSE 0

\* every row that is there holds numbers only
RowsOfNumbers(ps) ==
  \A p \in 1..Len(ps) :
    /\ ps[p].scored.t = "array" => NumbersOnly(ps[p].scored)
    /\ ps[p].conceded.t = "array" => NumbersOnly(ps[p].conceded)

\* C10: build12Values given fewer than 3 periods, or rows of fewer than 4
\* entries, or a period lacking a row, returns 12 values with every missing entry
\* treated as 0 and never throws.
C10_MissingAsZero ==
  (ret.op = "build12" /\ RowsOfNumbers(arg)) =>
    /\ ~ret.threw
    /\ Len(ret.vals) = 12
    /\ \A p \in 0..2 : \A b \in 0..3 :
         ret.vals[4 * p + b + 1]
           = EntryOrZero(arg, p, "scored", b) - EntryOrZero(arg, p, "conceded", b)

AllZero(vals) == Len(vals) = 12 /\ \A i \in 1..12 : vals[i] = 0

\* C11: with the store key absent or unparseable and no time box in the page,
\* readPeriods returns three all-zero periods, build12Values gives twelve zeros,
\* the display scale is 6, the render emits neither filled area, and nothing throws.
C11_NoInputFlatChart ==
  (PickRaw(localStorage).kind \in {"absent", "malformed"} /\ getTimeBoxElement(page) = 0) =>
    /\ ret.op # "none" => ret.periods = ThreeZeroPeriods
    /\ ret.op = "build12" => ~ret.threw /\ AllZero(ret.vals)
    /\ chart.drawn =>
         /\ ~chart.threw
         /\ AllZero(chart.values12)
         /\ chart.maxScale = MAX_DISPLAY
         /\ ~chart.posArea /\ ~chart.negArea

\* unparseable text in the store, no time box, cycle and render both done
C11_Witness ==
  /\ PickRaw(localStorage).kind = "malformed"
  /\ getTimeBoxElement(page) = 0
  /\ ret.op = "build12"
  /\ chart.drawn /\ page.container

\* what of the page the reader looks at: the boxes without their display style
ControlsOf(pg) ==
  [b \in 1..3 |-> [present |-> pg.boxes[b].present, periods |-> pg.boxes[b].periods]]

\* C12: with store and controls unchanged, a read-transform cycle yields the
\* periods and the 12 values of the cycle before it, also when a render ran in
\* between; and no step alters the store or the control texts.
C12_Idempotent ==
  [][/\ (ret.op = "readPeriods" /\ ret'.op = "build12" /\ log.cycles > 0) =>
          /\ ret'.periods = log.periods
          /\ ret'.vals = log.vals
     /\ localStorage' = localStorage
     /\ ControlsOf(page') = ControlsOf(page)]_vars

\* two cycles with a render between them that hid the time box, on data from the page
C12_Witness ==
  /\ ret.op = "build12"
  /\ log.cycles = 2 /\ log.between
  /\ getTimeBoxElement(page) # 0
  /\ page.boxes[getTimeBoxElement(page)].hidden
  /\ ret.periods = ret.dom.periods
  /\ AnyNonZero(ret.periods)

\* C13: negating every scored and conceded entry, or exchanging scored and
\* conceded, negates each of the 12 values and leaves the minute of each of the 12
\* windows unchanged.
C13_SignSymmetry ==
  (ret.op \in {"build12negated", "build12swapped"} /\ WellFormed(arg)) =>
    /\ ~ret.threw
    /\ Len(ret.vals) = 12 /\ Len(log.before) = 12
    /\ \A i \in 1..12 :
         /\ ret.vals[i] = 0 - log.before[i]
         /\ Points(ret.vals)[i].minute = Points(log.before)[i].minute

C13_Witness ==
  /\ ret.op = "build12swapped"
  /\ arg = ExamplePeriods
  /\ log.before = ExampleValues
  /\ ret.vals = <<0 - 1, 0, 1, 0 - 2, 0, 0, 0, 0, 0 - 2, 0, 0, 0>>

IsObserverTimer(t) == t.src = "observer"

C15_AtMostOnePending == Len(auto.timers) <= 1

\* C16: once the page is ready (the script ran after the document had loaded, or
\* DOMContentLoaded fired), a render has been performed and the chart container
\* exists, whether or not a time box was present at that moment.
C16_RenderWhenReady ==
  auto.phase = "ready" => (chart.drawn /\ page.container)

\* C17: a store-change event schedules a render if and only if the changed key is
\* 'seasonMapTimeData' or 'timeData'; a change that removes the data the chart
\* was drawn from always schedules one, a change to an unrelated key never does.
C17_StorageKeyFilter ==
  log.storage.seen =>
    /\ log.storage.scheduled <=>
         log.storage.key \in {Str(SeasonMapTimeDataKey), Str(TimeDataKey)}
    /\ log.storage.removed => log.storage.scheduled

\* C18: after a click on a reset control that leaves every control of the time
\* box reading 0, a render runs and the chart it draws has all 12 values equal to
\* 0, for every content of the store: a reset click not yet answered by a render
\* has a reset timer pending, and the render of a reset timer that finds every
\* control at 0 draws 12 zeros.
C18_ResetClearsChart ==
  /\ (log.resets > 0 /\ log.resetRuns = 0) =>
       \E i \in 1..Len(auto.timers) : auto.timers[i].src = "reset"
  /\ (log.lastRun.src = "reset" /\ log.lastRun.zeroControls) => log.lastRun.cleared


\* C19: in the Option-B revision the value read at UI bucket b (0..3, countdown
\* order) of period p (0..2) is plotted at minute 20*p + 17 - 5*b, every minute
\* lies in 0..60, and the points handed to the area and outline builders are in
\* strictly increasing minute order, each value still attached to its own minute.
C19_OptionBMinutes ==
  (chart.drawn /\ ~chart.threw) =>
    LET ps == readPeriods(localStorage, page)
    IN  /\ Len(chart.chron) = 12
        /\ \A i \in 1..12 : chart.chron[i].minute \in 0..60
        /\ \A i \in 1..11 : chart.chron[i].minute < chart.chron[i + 1].minute
        /\ \A p \in 0..2 : \A b \in 0..3 :
             \E i \in 1..12 :
               /\ chart.chron[i].minute = 20 * p + 17 - 5 * b
               /\ chart.chron[i].idx = 4 * p + b
               /\ chart.chron[i].v = chart.values12[4 * p + b + 1]
               /\ WellFormed(ps) =>
                    chart.chron[i].v = EntryOrZero(ps, p, "scored", b)
                                         - EntryOrZero(ps, p, "conceded", b)

\* a chart whose first and last bucket of period 1 differ: the value of bucket
\* 19-15 stands at minute 17, fourth from the left, that of bucket 4-0 at minute 2
C19_Witness ==
  /\ chart.drawn /\ ~chart.threw
  /\ chart.values12[1] # 0
  /\ chart.values12[1] # chart.values12[4]
  /\ chart.chron[4].minute = 17 /\ chart.chron[4].v = chart.values12[1]
  /\ chart.chron[1].minute = 2 /\ chart.chron[1].v = chart.values12[4]


\* the count of control k (1..4) of the top row minus that of the bottom row,
\* in the .period group of period p (0..2) of the time box
LabelledValue(pg, p, k) ==
  LET g == pg.boxes[getTimeBoxElement(pg)].periods[p + 1]
  IN  ButtonValue(SelectSeq(g, IsTop)[k]).n - ButtonValue(SelectSeq(g, IsBottom)[k]).n

\* the time box has a group for period p with four controls in each row
TwoRowsOfFour(pg, p) ==
  /\ getTimeBoxElement(pg) # 0
  /\ Len(pg.boxes[getTimeBoxElement(pg)].periods) > p
  /\ LET g == pg.boxes[getTimeBoxElement(pg)].periods[p + 1]
     IN  Len(SelectSeq(g, IsTop)) = 4 /\ Len(SelectSeq(g, IsBottom)) = 4

\* C20: in the minute-midpoint revision the value plotted at minute 20p+2 is
\* scored minus conceded of the control labelled 4-0 (the last control of each
\* row in the page), and the value at minute 20p+17 is that of the control
\* labelled 19-15 (the first control of each row).
C20_MidpointBuckets ==
  chart.drawn =>
    \A p \in 0..2 :
      TwoRowsOfFour(page, p) =>
        \A i \in 1..12 :
          /\ chart.chron[i].minute = 20 * p + 2 =>
               chart.chron[i].v = LabelledValue(page, p, 4)
          /\ chart.chron[i].minute = 20 * p + 17 =>
               chart.chron[i].v = LabelledValue(page, p, 1)


\* C21: for every set of 12 window values and the display scale computed from
\* them, the vertical position valueToY(v, maxScale) of every plotted value lies
\* between the top guide line and the bottom guide line, inclusive.
C21_WithinGuideLines ==
  (chart.drawn /\ ~chart.threw) =>
    \A i \in 1..Len(chart.ys) :
      /\ TOP_GUIDE_Y * chart.ys[i].den <= chart.ys[i].num
      /\ chart.ys[i].num <= BOTTOM_GUIDE_Y * chart.ys[i].den


\* C22: in the smoothed revisions a momentum of 0 is drawn exactly on the
\* baseline: yForMomentum(0) equals MIDLINE_Y, so with all-zero input every curve
\* point lies on the baseline and the fills closed against MIDLINE_Y enclose no
\* area.
C22_ZeroOnBaseline ==
  (momentum.op = "render" /\ \A i \in 1..Len(momentum.out.num) : momentum.out.num[i] = 0) =>
    \A i \in 1..Len(momentum.ys) :
      momentum.ys[i].num = MIDLINE_Y_Smoothed * momentum.ys[i].den

\* the numerators a pass started from: the slots after the buckets were added,
\* or the pass before
PassBefore(m, k) == IF k = 1 THEN m.minutes ELSE m.passes[k - 1].num

\* C23: buildMomentumFromTimeBoxes returns exactly 61 values, each within
\* -MAX_GOALS_DISPLAY..MAX_GOALS_DISPLAY; bucket b of period p is added at minute
\* 20*p + {17,12,7,2}[b] and no two buckets share a slot; each of the 6 passes
\* computes every interior slot i as 0.25*prev[i-1] + 0.5*prev[i] + 0.25*prev[i+1]
\* from the values of the pass before only; slots 0 and 60 are always 0.
C23_BuildMomentum ==
  momentum.op = "render" =>
    /\ Len(momentum.out.num) = 61
    /\ \A i \in 1..61 :
         /\ momentum.out.num[i] <= MAX_GOALS_DISPLAY * momentum.out.den
         /\ momentum.out.num[i] >= (0 - MAX_GOALS_DISPLAY) * momentum.out.den
    /\ \A p \in 0..2 : \A b \in 0..3 :
         /\ SlotOf(p, b) = 20 * p + BUCKET_MIDS[b + 1]
         /\ momentum.minutes[20 * p + BUCKET_MIDS[b + 1] + 1]
              = BucketValue(momentum.periods, p, b)
    /\ Cardinality({SlotOf(pb[1], pb[2]) : pb \in (0..2) \X (0..3)}) = 12
    /\ \A i \in 1..61 :
         (~\E p \in 0..2, b \in 0..3 : SlotOf(p, b) = i - 1) => momentum.minutes[i] = 0
    /\ Len(momentum.passes) = 6
    /\ \A k \in 1..6 :
         /\ momentum.passes[k].den = 4 * (IF k = 1 THEN 1 ELSE momentum.passes[k - 1].den)
         /\ Len(momentum.passes[k].num) = 61
         /\ \A i \in 2..60 :
              momentum.passes[k].num[i]
                = PassBefore(momentum, k)[i - 1] + 2 * PassBefore(momentum, k)[i]
                    + PassBefore(momentum, k)[i + 1]
         /\ momentum.passes[k].num[1] = 0 /\ momentum.passes[k].num[61] = 0
    /\ momentum.minutes[1] = 0 /\ momentum.minutes[61] = 0
    /\ momentum.out.num[1] = 0 /\ momentum.out.num[61] = 0
    /\ momentum.out.den = momentum.passes[6].den
    /\ \A i \in 1..61 :
         (/\ momentum.passes[6].num[i] <= MAX_GOALS_DISPLAY * momentum.out.den
          /\ momentum.passes[6].num[i] >= (0 - MAX_GOALS_DISPLAY) * momentum.out.den)
           => momentum.out.num[i] = momentum.passes[6].num[i]

\* ManyGoals conceded in the window 4-0 of period 1: the slot of minute 2 is cut
\* off at -MAX_GOALS_DISPLAY, and the smoothing has reached minute 1 but not 0
C23_Witness ==
  /\ momentum.op = "render"
  /\ momentum.minutes[3] = 0 - ManyGoals
  /\ momentum.passes[6].num[3] < (0 - MAX_GOALS_DISPLAY) * momentum.passes[6].den
  /\ momentum.out.num[3] = (0 - MAX_GOALS_DISPLAY) * momentum.out.den
  /\ momentum.out.num[2] < 0
  /\ momentum.out.num[1] = 0

\* C24: in the smoothed revisions readTimeBoxData always returns exactly 3
\* periods, each with exactly 4 scored and 4 conceded entries, for every page
\* state: time box absent, time box without .period groups, groups of any number
\* of controls.
C24_ThreePeriodsOfFour ==
  momentum.op \in {"readTimeBoxData", "render"} =>
    /\ Len(momentum.periods) = 3
    /\ \A p \in 1..Len(momentum.periods) :
         /\ Len(momentum.periods[p].scored.a) = 4
         /\ Len(momentum.periods[p].conceded.a) = 4


\* C25: catmullRom2bezier returns the empty path for no point, a single move
\* for one point, a move and one line for two; for n >= 3 points it pads the
\* series with a copy of the first and of the last point, writes one move to
\* the first point and exactly n - 1 cubic segments, reads no index outside
\* the padded series, and the k-th segment ends at input point k + 1.
\* EndsAt says how the end is compared with the input point.
C25_Shape(EndsAt(_, _)) ==
  path.op \in {"returned", "threw"} =>
    LET n == Len(path.points)
    IN  /\ path.op = "returned"
        /\ n = 0 => path.d = <<>>
        /\ n = 1 => /\ Len(path.d) = 1
                    /\ path.d[1].c = "M" /\ EndsAt(path.d[1].to, path.points[1])
        /\ n = 2 => /\ Len(path.d) = 2
                    /\ path.d[1].c = "M" /\ EndsAt(path.d[1].to, path.points[1])
                    /\ path.d[2].c = "L" /\ EndsAt(path.d[2].to, path.points[2])
        /\ n >= 3 =>
             /\ Len(path.p) = n + 2
             /\ path.p[1] = path.points[1]
             /\ path.p[n + 2] = path.points[n]
             /\ \A i \in 1..n : path.p[i + 1] = path.points[i]
             /\ path.reads \subseteq 0..(n + 1)
             /\ Len(path.d) = n
             /\ path.d[1].c = "M" /\ EndsAt(path.d[1].to, path.points[1])
             /\ \A k \in 1..(n - 1) :
                  /\ path.d[k + 1].c = "C"
                  /\ EndsAt(path.d[k + 1].to, path.points[k + 1])

\* the coordinates written are those of the point itself
ExactlyAt(to, pt) == 100 * pt[1] = Unit * to[1] /\ 100 * pt[2] = Unit * to[2]

\* the coordinates written are those of the point to two decimals
ToTwoDecimals(to, pt) ==
  /\ to = Fixed(pt)
  /\ \A c \in 1..2 : 200 * Abs(100 * pt[c] - Unit * to[c]) <= 100 * Unit

\* C25 as stated: every segment ends exactly at its input point
C25_EndsExactlyAtInputs == C25_Shape(ExactlyAt)

\* C25 amended: every segment ends at its input point written to two
\* decimals, at most 0.005 away from it in either coordinate
C25_CatmullRom2bezier == C25_Shape(ToTwoDecimals)

\* a series of at least 4 points went through, and some segment ends at a
\* point whose coordinates do not fit two decimals
C25_Witness ==
  /\ path.op = "returned"
  /\ Len(path.points) >= 4
  /\ Len(path.d) = Len(path.points)
  /\ \E k \in 2..Len(path.points) :
       /\ path.d[k].c = "C"
       /\ ~ExactlyAt(path.d[k].to, path.points[k])


\* the renders scheduled by reset clicks that are still pending
PendingResets == Len(SelectSeq(auto.timers, LAMBDA t : t.src = "reset"))

\* C26: a click on a reset control schedules exactly one render, whatever
\* the wiring: the renders run by reset timers and those still pending are
\* as many as the reset clicks so far.
C26_OneRenderPerResetClick == log.resetRuns + PendingResets = log.resets


\* C27: once a time box is on the page of a set-up script (also when it was
\* put in after a first setupAutoUpdate that found none), the observer of
\* the root is disconnected, a render has been performed, the observer and
\* the click listener of the time box are attached to it, and the storage
\* listener and the delegated click listener are installed exactly once.
C27_InstalledOnce ==
  (auto.phase = "ready" /\ getTimeBoxElement(page) # 0) =>
    /\ ~auto.rootObs
    /\ chart.drawn /\ page.container
    /\ auto.box = getTimeBoxElement(page)
    /\ auto.storageL = 1
    /\ auto.docClick = 1


\* C28: the page writes of a render (the container rebuilt, the time box
\* hidden) do not make the observer of the time box schedule another render:
\* the step of a timer that runs the render takes that timer off and leaves
\* the pending timers otherwise as they were.
C28_RenderSchedulesNone ==
  [][TimerDue => auto'.timers = WithoutTimer(auto.timers, NextTimer)]_vars


\* some entry of the periods is a number other than 0 (NaN is not one)
SomeNonZeroNumber(ps) ==
  \E p \in 1..Len(ps) :
    LET both == ps[p].scored.a \o ps[p].conceded.a
    IN  \E i \in 1..Len(both) : both[i].t = "number" /\ both[i].n # 0

\* C29: a store in which no entry is a non-zero number is never chosen over
\* page content that holds a non-zero value: readPeriods then returns the
\* periods of the page, and hasNonZero is true of the store only if some
\* entry of it is a number different from 0.
C29_ZeroStoreNeverPreferred ==
  (/\ ret.op = "readPeriods"
   /\ ~ret.ls.isNull /\ ~SomeNonZeroNumber(ret.ls.periods)
   /\ ~ret.dom.isNull /\ SomeNonZeroNumber(ret.dom.periods)) =>
    /\ ~hasNonZero(ret.ls.periods)
    /\ ret.periods = ret.dom.periods


\* every timer has run and the container holds a chart
AtRest == auto.phase = "ready" /\ auto.timers = <<>> /\ chart.drawn

\* C30: every path of season_map_momentum.js that draws into the container
\* uses the same reader and the same mapping of buckets to minutes: once
\* every timer has run the chart is the one the exported
\* window.renderSeasonMomentumGraphic draws for the page as it is, whichever
\* trigger scheduled the last render, and the exported accessors return the
\* values that chart shows.
C30_SameChartEveryPath ==
  /\ [](AtRest => chart = DrawnSecond(page))
  /\ [][ret' # ret => ret'.vals = chart.values12]_vars

============================================================================
